---- MODULE Spec2Model ----
(***************************************************************************)
(* The request/response correlation core of astrbot_plugin_httpplatform:   *)
(* the correlation table (pending_responses) of a platform adapter, the    *)
(* request handlers that fill it, the response sinks the consumer calls,   *)
(* the lifecycle sweeper, the WebSocket session registry and shutdown.     *)
(*                                                                         *)
(* A behaviour is the life of one adapter instance, an HTTPAdapter or a    *)
(* SimpleHTTPAdapter (`adapter`, fixed by Init): two instances share no    *)
(* state.                                                                  *)
(*                                                                         *)
(* Every event id is a number of Reqs (uuid4 ids are never reused, so ids  *)
(* are handed out in order); every WebSocket connection, and the session   *)
(* made for it, is a number of Conns.  Time is the integer clock `now`.    *)
(* One action is one run of a coroutine between two suspension points.     *)
(*                                                                         *)
(* The sink methods (send) are applied to every event id handed out so     *)
(* far: the consumer may hold an event object for any of them.             *)
(*                                                                         *)
(* Spec is the correlation core, SpecSessions the session registry under   *)
(* concurrent WebSocket connections, SpecStream one streaming request from *)
(* the point where generate() has sent its connected frame.                *)
(***************************************************************************)
EXTENDS Integers, Sequences, FiniteSets, TLC

\* ---------------------------------------------------------------- bounds
MaxReq == 2
MaxConn == 4
MaxTicks == 3
MaxVal == 2
MaxSends == 2
MaxMessages == 1
MaxChain == 2
MaxPuts == 5
MaxUnits == 3

Reqs == 1..MaxReq
Conns == 1..MaxConn
Values == 1..MaxVal

\* ------------------------------------------------- configuration, constants
\* platform_config of the adapter instance
auth_token == "tok"
max_sessions == 2
session_timeout == 2

\* data.get('timeout', 30) and wait_for(future, timeout=30)
DEFAULT_TIMEOUT == 30
SIMPLE_TIMEOUT == 30

OK == 200
BAD_REQUEST == 400
UNAUTHORIZED == 401
INTERNAL_ERROR == 500
TIMEOUT == 504
NOT_FOUND == 404
\* a status of the model: the handler ended with an exception it did not catch
UNCAUGHT == 0 - 1

\* asyncio.Queue(maxsize=100), the 60 s heartbeat rule, the 1.0 s poll and
\* data.get('timeout', 600) of generate()
QUEUE_MAXSIZE == 100
HEARTBEAT_AFTER == 60
POLL_TIMEOUT == 1
STREAM_DEFAULT_TIMEOUT == 600
StreamTimeouts == {2, STREAM_DEFAULT_TIMEOUT}

\* the names the two adapters register under
Adapters == {"http_adapter", "simple_http"}

\* request inputs
AuthHeaders == {"absent", "Bearer tok", "Bearer bad", "tok", "Bearer Bearer tok"}
\* the token parameter of a WebSocket URL ("": none)
QueryTokens == {"", "tok", "bad"}
Bodies == {"empty", "nomsg", "msg"}
Timeouts == {1, DEFAULT_TIMEOUT}
\* a "timeout" field that is no number (a string, a list, null)
NotANumber == 0 - 99
\* what a client may put in the "timeout" field
TimeoutInputs == Timeouts \cup {0, 0 - 5, NotANumber}

VARIABLES
  adapter,                  \* which adapter class this instance is
  now,                      \* time.time()
  ticks,                    \* clock steps taken
  nextReq,                  \* the next event id uuid4 hands out
  kind,                     \* kind[e]: which entry point made event id e
  pc,                       \* pc[e]: where e's request handler is
  status,                   \* status[e]: the HTTP status the caller received, 0: none yet
  response,                 \* response[e]: the "response" field of a 200 body
  pending_responses,        \* the ids in the adapter's pending_responses
  created_at,               \* PendingResponse.created_at, by id
  timeout,                  \* PendingResponse.timeout / the handler's timeout
  future,                   \* the state of the future made for id e
  result,                   \* the value set_result stored
  invalid_state,            \* ids whose future had set_* called when done
  sends,                    \* sends[e]: sends for id e that reached the table
  late,                     \* ids sent for after their handler had returned
  committed,                \* ids handed to the consumer by commit_event
  total_requests_processed,
  total_errors,
  sessions,                 \* HTTPAdapter.sessions, in insertion order
  conn,                     \* conn[c]: where connection c's handler is
  nextConn,
  last_active,
  message_count,
  close_calls,              \* close_calls[c]: HTTPSession.close invocations
  running,                  \* HTTPAdapter._running
  term,                     \* where the adapter's terminate() is
  closing,                  \* sessions terminate() is closing in its gather
  queue,                    \* the asyncio.Queue of one streaming request
  enqueued,                 \* every item put on the queue, in order
  frames,                   \* the frames generate() has yielded, in order
  gen,                      \* where generate() is
  stream_timeout,           \* generate()'s timeout
  start_time,
  last_activity_time,
  poll_start,               \* when the current wait_for(queue.get()) began
  todo,                     \* the puts the running sink call has still to make
  chunks_made,              \* chunks the consumer has produced so far
  end_tasks,                \* queue.put tasks made by mark_conversation_end
  is_streaming,             \* StreamHTTPMessageEvent._is_streaming (httpmessageevent.py)
  finalcall,                \* StreamHTTPMessageEvent._finalcall
  stream_complete,          \* StreamHTTPMessageEvent._stream_complete.is_set()
  streaming,                \* where the send_streaming call in progress is
  gen_left,                 \* chunks its generator has still to yield
  end_wait,                 \* where a send_end_signal call is
  dropped,                  \* items _safe_put gave up on, in order
  cached_response,          \* StandardHTTPMessageEvent._cached_response, by id
  final_call,               \* StandardHTTPMessageEvent._finalcall, by id
  units_made,               \* message units the consumer has passed so far
  passed,                   \* passed[e]: the units passed to the sends of e, in call order
  resolved_with,            \* the list send_response handed to set_result, as it was then
  admin,                    \* the last administrative request and its answer
  cleanup_task,             \* where the task of _cleanup_loop stands
  put_state,                \* _safe_put: "idle", or "waiting" in queue.put
  put_start,                \* the time the _safe_put now waiting was called
  put_result,               \* what the last _safe_put returned
  gen_made,                 \* the chunks the generator of the running send_streaming yielded
  ws_connections,           \* HttpPlatformAdapter._ws_connections (Platform.py), in list order
  ws_state,                 \* ws_state[c]: connection c is "fresh", "open", "closed" or "gone"
  ws_loop,                  \* the loop over _ws_connections in progress: "none", "send", "close", "over"
  ws_iter,                  \* the position of that loop's list iterator
  ws_awaiting,              \* the connection whose send_json / close the loop awaits, 0: none
  ws_attempted,             \* the connections the loop in progress has sent to / closed
  ws_steady                 \* the connections open and in the list ever since that loop began

coreVars == <<now, ticks, nextReq, kind, pc, status, response, pending_responses,
              created_at, timeout, future, result, invalid_state, sends, late,
              committed, total_requests_processed, total_errors>>
sessVars == <<sessions, conn, nextConn, last_active, message_count, close_calls>>
termVars == <<adapter, running, term, closing>>
streamVars == <<queue, enqueued, frames, gen, stream_timeout, start_time,
                last_activity_time, poll_start, todo, chunks_made, end_tasks>>
sinkVars == <<is_streaming, finalcall, stream_complete, streaming, gen_left,
              end_wait, dropped>>
bufVars == <<cached_response, final_call, units_made, passed, resolved_with>>
putVars == <<put_state, put_start, put_result, gen_made>>
wsVars == <<ws_connections, ws_state, ws_loop, ws_iter, ws_awaiting, ws_attempted, ws_steady>>
extVars == <<sinkVars, bufVars, admin, cleanup_task, putVars, wsVars>>

\* ------------------------------------------------------------ dataclasses
\* the fields of the HTTPRequestData dataclass
HTTPRequestData_fields ==
  {"method", "url", "headers", "remote_addr", "user_agent", "content_type",
   "accept", "timestamp"}

\* HTTPRequestData(**kwargs): the generated __init__ raises TypeError for a
\* keyword that is no field; otherwise the object has every field
HTTPRequestData(kwargs) ==
  IF kwargs \subseteq HTTPRequestData_fields
    THEN [ok |-> TRUE, attrs |-> HTTPRequestData_fields]
    ELSE [ok |-> FALSE, attrs |-> {}]

\* the keywords each entry point passes
http_request_kwargs ==
  {"method", "url", "headers", "remote_addr", "user_agent", "content_type",
   "accept", "data"}
ws_request_kwargs == {"method", "url", "headers", "remote_addr", "user_agent"}

\* HTTPMessageEvent.__init__ / _set_extra_info read these attributes of
\* request_data; a missing one raises AttributeError
event_reads ==
  {"headers", "method", "url", "remote_addr", "user_agent", "content_type",
   "accept", "timestamp", "data"}
HTTPMessageEvent_init(request_data) == event_reads \subseteq request_data.attrs

\* ------------------------------------------------------------------ auth
\* HTTPAdapter._check_auth: 0 when the request may pass, else the status
check_auth(hdr) ==
  IF auth_token = "" THEN 0
  ELSE IF hdr = "absent" THEN UNAUTHORIZED
  ELSE IF hdr # "Bearer " \o auth_token THEN UNAUTHORIZED
  ELSE 0

\* the check at the head of SimpleHTTPAdapter's send_message
simple_check_auth(hdr) ==
  IF auth_token # "" /\ (hdr = "absent" \/ hdr # "Bearer " \o auth_token)
    THEN UNAUTHORIZED ELSE 0

\* ----------------------------------------------------------------- futures
done(e) == future[e] # "pending"

\* future.set_result(v) / future.set_exception(x) on e's future: on a future
\* that is done asyncio raises InvalidStateError and changes nothing
set_future(fut, e, st) == IF fut[e] = "pending" THEN [fut EXCEPT ![e] = st] ELSE fut
set_value(res, fut, e, v) == IF fut[e] = "pending" THEN [res EXCEPT ![e] = v] ELSE res
set_raises(fut, e) == IF fut[e] = "pending" THEN {} ELSE {e}

\* -------------------------------------------------------------------- Init
\* The adapters after __init__ and run(): empty tables, no session, the
\* cleanup task started.
\* every field but the adapter class
InitFields ==
  /\ now = 0
  /\ ticks = 0
  /\ nextReq = 1
  /\ kind = [e \in Reqs |-> "none"]
  /\ pc = [e \in Reqs |-> "idle"]
  /\ status = [e \in Reqs |-> 0]
  /\ response = [e \in Reqs |-> 0]
  /\ pending_responses = {}
  /\ created_at = [e \in Reqs |-> 0]
  /\ timeout = [e \in Reqs |-> 0]
  /\ future = [e \in Reqs |-> "none"]
  /\ result = [e \in Reqs |-> 0]
  /\ invalid_state = {}
  /\ sends = [e \in Reqs |-> 0]
  /\ late = {}
  /\ committed = {}
  /\ total_requests_processed = 0
  /\ total_errors = 0
  /\ sessions = <<>>
  /\ conn = [c \in Conns |-> "none"]
  /\ nextConn = 1
  /\ last_active = [c \in Conns |-> 0]
  /\ message_count = [c \in Conns |-> 0]
  /\ close_calls = [c \in Conns |-> 0]
  /\ running = TRUE
  /\ term = "idle"
  /\ closing = {}
  /\ is_streaming = FALSE
  /\ finalcall = FALSE
  /\ stream_complete = FALSE
  /\ streaming = "idle"
  /\ gen_left = 0
  /\ end_wait = "idle"
  /\ dropped = <<>>
  /\ cached_response = [e \in Reqs |-> <<>>]
  /\ final_call = [e \in Reqs |-> FALSE]
  /\ units_made = 0
  /\ passed = [e \in Reqs |-> <<>>]
  /\ resolved_with = [e \in Reqs |-> <<>>]
  /\ admin = [endpoint |-> "none", hdr |-> "none", status |-> 0, body |-> "none"]
  /\ cleanup_task = "sleeping"
  /\ put_state = "idle"
  /\ put_start = 0
  /\ put_result = "none"
  /\ gen_made = <<>>
  /\ ws_connections = <<>>
  /\ ws_state = [c \in Conns |-> "fresh"]
  /\ ws_loop = "none"
  /\ ws_iter = 0
  /\ ws_awaiting = 0
  /\ ws_attempted = {}
  /\ ws_steady = {}

InitAdapter == adapter \in Adapters /\ InitFields

\* no streaming request is being served
NoStream ==
  /\ queue = <<>>
  /\ enqueued = <<>>
  /\ frames = <<>>
  /\ gen = "none"
  /\ stream_timeout = STREAM_DEFAULT_TIMEOUT
  /\ start_time = 0
  /\ last_activity_time = 0
  /\ poll_start = 0
  /\ todo = <<>>
  /\ chunks_made = 0
  /\ end_tasks = 0

Init == InitAdapter /\ NoStream

\* the clock advances by a second or by a whole default timeout
Tick(d) ==
  /\ ticks < MaxTicks
  /\ now' = now + d
  /\ ticks' = ticks + 1
  /\ UNCHANGED <<nextReq, kind, pc, status, response, pending_responses, created_at,
                 timeout, future, result, invalid_state, sends, late, committed,
                 total_requests_processed, total_errors>>
  /\ UNCHANGED <<sessVars, termVars, extVars, streamVars>>

\* ------------------------------------------------------- request handlers
\* a rejection that counts the request as processed
Reject_counted(e, k, st, errs) ==
  /\ kind' = [kind EXCEPT ![e] = k]
  /\ pc' = [pc EXCEPT ![e] = "done"]
  /\ status' = [status EXCEPT ![e] = st]
  /\ total_errors' = total_errors + errs
  /\ total_requests_processed' = total_requests_processed + 1
  /\ nextReq' = nextReq + 1
  /\ UNCHANGED <<now, ticks, response, pending_responses, created_at, timeout, future,
                 result, invalid_state, sends, late, committed>>

\* the handler of event id e returns `st` without having registered anything
Reject(e, k, st, errs) ==
  /\ kind' = [kind EXCEPT ![e] = k]
  /\ pc' = [pc EXCEPT ![e] = "done"]
  /\ status' = [status EXCEPT ![e] = st]
  /\ total_errors' = total_errors + errs
  /\ nextReq' = nextReq + 1
  /\ UNCHANGED <<now, ticks, response, pending_responses, created_at, timeout, future,
                 result, invalid_state, sends, late, committed, total_requests_processed>>

\* HTTPAdapter._handle_http_message up to its wait: POST /message with
\* Authorization header hdr, JSON body `body`, timeout field tmo
HandleHttpMessage(e, hdr, body, tmo) ==
  /\ adapter = "http_adapter"
  /\ e = nextReq
  /\ UNCHANGED <<sessVars, termVars, extVars, streamVars>>
  /\ LET request_data == HTTPRequestData(http_request_kwargs) IN
     IF check_auth(hdr) # 0 THEN Reject(e, "http", check_auth(hdr), 0)
     ELSE IF body = "empty" THEN Reject(e, "http", BAD_REQUEST, 0)
     ELSE IF ~request_data.ok THEN Reject(e, "http", INTERNAL_ERROR, 1)
     ELSE IF body = "nomsg" THEN Reject(e, "http", BAD_REQUEST, 0)
     ELSE IF ~HTTPMessageEvent_init(request_data)
       THEN \* the entry is registered, then the event constructor raises
            /\ kind' = [kind EXCEPT ![e] = "http"]
            /\ pending_responses' = pending_responses \cup {e}
            /\ created_at' = [created_at EXCEPT ![e] = now]
            /\ timeout' = [timeout EXCEPT ![e] = tmo]
            /\ future' = [future EXCEPT ![e] = "pending"]
            /\ pc' = [pc EXCEPT ![e] = "done"]
            /\ status' = [status EXCEPT ![e] = INTERNAL_ERROR]
            /\ total_errors' = total_errors + 1
            /\ nextReq' = nextReq + 1
            /\ UNCHANGED <<now, ticks, response, result, invalid_state, sends, late, committed,
                           total_requests_processed>>
       ELSE /\ kind' = [kind EXCEPT ![e] = "http"]
            /\ pending_responses' = pending_responses \cup {e}
            /\ created_at' = [created_at EXCEPT ![e] = now]
            /\ timeout' = [timeout EXCEPT ![e] = tmo]
            /\ future' = [future EXCEPT ![e] = "pending"]
            /\ committed' = committed \cup {e}
            /\ total_requests_processed' = total_requests_processed + 1
            /\ pc' = [pc EXCEPT ![e] = "waiting"]
            /\ nextReq' = nextReq + 1
            /\ UNCHANGED <<now, ticks, status, response, result, invalid_state, sends, late,
                           total_errors>>

\* SimpleHTTPAdapter's send_message up to its wait
HandleSimpleMessage(e, hdr, body) ==
  /\ adapter = "simple_http"
  /\ e = nextReq
  /\ UNCHANGED <<sessVars, termVars, extVars, streamVars>>
  /\ IF simple_check_auth(hdr) # 0 THEN Reject(e, "simple", simple_check_auth(hdr), 0)
     ELSE IF body # "msg" THEN Reject(e, "simple", BAD_REQUEST, 0)
     ELSE /\ kind' = [kind EXCEPT ![e] = "simple"]
          /\ pending_responses' = pending_responses \cup {e}
          /\ created_at' = [created_at EXCEPT ![e] = now]
          /\ timeout' = [timeout EXCEPT ![e] = SIMPLE_TIMEOUT]
          /\ future' = [future EXCEPT ![e] = "pending"]
          /\ committed' = committed \cup {e}
          /\ pc' = [pc EXCEPT ![e] = "waiting"]
          /\ nextReq' = nextReq + 1
          /\ UNCHANGED <<now, ticks, status, response, result, invalid_state, sends, late,
                         total_requests_processed, total_errors>>

\* asyncio.wait_for(future, timeout) runs out: the timer fires while the
\* future is pending and the future is cancelled; the handler resumes later
WaitForTimeout(e) ==
  /\ pc[e] = "waiting"
  /\ future[e] = "pending"
  /\ now - created_at[e] >= timeout[e]
  /\ future' = [future EXCEPT ![e] = "cancelled"]
  /\ pc' = [pc EXCEPT ![e] = "cancelling"]
  /\ UNCHANGED <<now, ticks, nextReq, kind, status, response, pending_responses,
                 created_at, timeout, result, invalid_state, sends, late, committed,
                 total_requests_processed, total_errors>>
  /\ UNCHANGED <<sessVars, termVars, extVars, streamVars>>

\* except asyncio.TimeoutError: drop the entry if it is still there, 504
timeout_branch(e) ==
  /\ pending_responses' = pending_responses \ {e}
  /\ status' = [status EXCEPT ![e] = TIMEOUT]
  /\ pc' = [pc EXCEPT ![e] = "done"]
  /\ UNCHANGED <<now, ticks, nextReq, kind, response, created_at, timeout, future,
                 result, invalid_state, sends, late, committed, total_requests_processed,
                 total_errors>>

\* wait_for raises TimeoutError into the handler after the cancellation
HandlerTimeout(e) ==
  /\ pc[e] = "cancelling"
  /\ timeout_branch(e)
  /\ UNCHANGED <<sessVars, termVars, extVars, streamVars>>

\* the awaited future is done: the handler resumes with its result or with
\* the exception stored in it
HandlerResume(e) ==
  /\ pc[e] = "waiting"
  /\ future[e] \in {"result", "timeout_error", "cancelled_error"}
  /\ UNCHANGED <<sessVars, termVars, extVars, streamVars>>
  /\ IF future[e] = "result"
       THEN /\ status' = [status EXCEPT ![e] = OK]
            /\ response' = [response EXCEPT ![e] = result[e]]
            /\ pc' = [pc EXCEPT ![e] = "done"]
            /\ UNCHANGED <<now, ticks, nextReq, kind, pending_responses, created_at,
                           timeout, future, result, invalid_state, sends, late, committed,
                           total_requests_processed, total_errors>>
     ELSE IF future[e] = "timeout_error"
       THEN timeout_branch(e)
       ELSE \* CancelledError is no Exception: no except clause catches it
            /\ status' = [status EXCEPT ![e] = UNCAUGHT]
            /\ pc' = [pc EXCEPT ![e] = "done"]
            /\ UNCHANGED <<now, ticks, nextReq, kind, response, pending_responses,
                           created_at, timeout, future, result, invalid_state, sends, late,
                           committed, total_requests_processed, total_errors>>

\* ---------------------------------------------------------- response sinks
\* what a sink's send leaves alone
SendFrame(e) ==
  /\ sends' = [sends EXCEPT ![e] = @ + 1]
  /\ late' = IF pc[e] = "done" /\ e \notin pending_responses THEN late \cup {e} ELSE late
  /\ UNCHANGED <<now, ticks, nextReq, kind, pc, status, response, created_at, timeout,
                 committed, total_requests_processed, total_errors>>
  /\ UNCHANGED <<sessVars, termVars, extVars, streamVars>>

\* StandardSend as a lookup that neither pops the entry nor asks done()
StandardSend_unguarded(e, v) ==
  /\ adapter = "http_adapter"
  /\ e < nextReq /\ kind[e] \in {"http", "ws"}
  /\ sends[e] < MaxSends
  /\ SendFrame(e)
  /\ IF e \in pending_responses
       THEN /\ future' = set_future(future, e, "result")
            /\ result' = set_value(result, future, e, v)
            /\ invalid_state' = invalid_state \cup set_raises(future, e)
            /\ UNCHANGED pending_responses
       ELSE UNCHANGED <<pending_responses, future, result, invalid_state>>

\* StandardHTTPMessageEvent.send (http_adapter.py) of the event with id e,
\* the message chain rendering to v
StandardSend(e, v) ==
  /\ adapter = "http_adapter"
  /\ e < nextReq /\ kind[e] \in {"http", "ws"}
  /\ sends[e] < MaxSends
  /\ SendFrame(e)
  /\ IF e \in pending_responses
       THEN /\ pending_responses' = pending_responses \ {e}
            /\ IF ~done(e)
                 THEN /\ future' = set_future(future, e, "result")
                      /\ result' = set_value(result, future, e, v)
                      /\ invalid_state' = invalid_state \cup set_raises(future, e)
                 ELSE UNCHANGED <<future, result, invalid_state>>
       ELSE UNCHANGED <<pending_responses, future, result, invalid_state>>

\* StandardHTTPMessageEvent.send_response (httpmessageevent.py) of the event
\* with id e, the cached response rendering to v
SendResponse(e, v) ==
  /\ adapter = "http_adapter"
  /\ e < nextReq /\ kind[e] \in {"http", "ws"}
  /\ sends[e] < MaxSends
  /\ SendFrame(e)
  /\ IF e \in pending_responses
       THEN /\ pending_responses' = pending_responses \ {e}
            /\ IF ~done(e)
                 THEN /\ future' = set_future(future, e, "result")
                      /\ result' = set_value(result, future, e, v)
                      /\ invalid_state' = invalid_state \cup set_raises(future, e)
                 ELSE UNCHANGED <<future, result, invalid_state>>
       ELSE UNCHANGED <<pending_responses, future, result, invalid_state>>

\* WebSocketMessageEvent.send that pops whichever entry comes first in the table
WebSocketSend_first_entry(e, v, delivered) ==
  /\ adapter = "http_adapter"
  /\ e < nextReq /\ kind[e] = "ws"
  /\ sends[e] < MaxSends
  /\ IF delivered
       THEN SendFrame(e)
       ELSE UNCHANGED <<now, ticks, nextReq, kind, pc, status, response, created_at,
                       timeout, sends, late, committed, total_requests_processed,
                       total_errors, sessVars, termVars, extVars, streamVars>>
  /\ IF delivered /\ e \in pending_responses
       THEN /\ pending_responses' = pending_responses \ {CHOOSE o \in pending_responses : \A p \in pending_responses : o <= p}
            /\ IF ~done(e)
                 THEN /\ future' = set_future(future, e, "result")
                      /\ result' = set_value(result, future, e, v)
                      /\ invalid_state' = invalid_state \cup set_raises(future, e)
                 ELSE UNCHANGED <<future, result, invalid_state>>
       ELSE UNCHANGED <<pending_responses, future, result, invalid_state>>

\* WebSocketMessageEvent.send: the frame is written to the socket first
\* (delivered = FALSE: websocket.send raises and send ends there)
WebSocketSend(e, v, delivered) ==
  /\ adapter = "http_adapter"
  /\ e < nextReq /\ kind[e] = "ws"
  /\ sends[e] < MaxSends
  /\ IF delivered
       THEN SendFrame(e)
       ELSE UNCHANGED <<now, ticks, nextReq, kind, pc, status, response, created_at,
                       timeout, sends, late, committed, total_requests_processed,
                       total_errors, sessVars, termVars, extVars, streamVars>>
  /\ IF delivered /\ e \in pending_responses
       THEN /\ pending_responses' = pending_responses \ {e}
            /\ IF ~done(e)
                 THEN /\ future' = set_future(future, e, "result")
                      /\ result' = set_value(result, future, e, v)
                      /\ invalid_state' = invalid_state \cup set_raises(future, e)
                 ELSE UNCHANGED <<future, result, invalid_state>>
       ELSE UNCHANGED <<pending_responses, future, result, invalid_state>>

\* SimpleHTTPEvent.send: the table holds the bare future
SimpleSend(e, v) ==
  /\ adapter = "simple_http"
  /\ e \in committed /\ kind[e] = "simple"
  /\ sends[e] < MaxSends
  /\ SendFrame(e)
  /\ IF e \in pending_responses
       THEN /\ pending_responses' = pending_responses \ {e}
            /\ IF ~done(e)
                 THEN /\ future' = set_future(future, e, "result")
                      /\ result' = set_value(result, future, e, v)
                      /\ invalid_state' = invalid_state \cup set_raises(future, e)
                 ELSE UNCHANGED <<future, result, invalid_state>>
       ELSE UNCHANGED <<pending_responses, future, result, invalid_state>>

\* ------------------------------------------------------------------ sweeper
\* `current_time - pending.created_at > pending.timeout` raises TypeError
\* when the stored timeout is no number: the sweep ends there, before its
\* second loop
sweep_raises == \E e \in pending_responses : timeout[e] = NotANumber

\* the entries the first loop of the sweep compares: the dict is walked in
\* insertion order, which is the order of the ids, up to the first entry
\* whose comparison raises
scanned_responses ==
  {e \in pending_responses :
     \A b \in pending_responses : timeout[b] = NotANumber => e < b}

\* the ids _cleanup_expired_responses collects at time `now`
expired_responses ==
  {e \in scanned_responses : now - created_at[e] > timeout[e]}

\* the sessions _cleanup_expired_sessions collects at time `now`
expired_sessions ==
  {sessions[i] : i \in {j \in 1..Len(sessions) :
                          now - last_active[sessions[j]] > session_timeout}}

\* the sweep without its second loop: expired entries stay in the table
cleanup_expired_responses_keep ==
  /\ future' = [e \in Reqs |->
                  IF e \in expired_responses /\ ~done(e) THEN "timeout_error"
                  ELSE future[e]]
  /\ invalid_state' = invalid_state
  /\ pending_responses' = pending_responses

\* HTTPAdapter._cleanup_expired_responses
cleanup_expired_responses ==
  /\ future' = [e \in Reqs |->
                  IF e \in expired_responses /\ ~done(e) THEN "timeout_error"
                  ELSE future[e]]
  /\ invalid_state' = invalid_state
  /\ pending_responses' = IF sweep_raises THEN pending_responses
                          ELSE pending_responses \ expired_responses

\* the session sweep without the close of what it pops
cleanup_expired_sessions_no_close ==
  /\ sessions' = SelectSeq(sessions, LAMBDA c : c \notin expired_sessions)
  /\ close_calls' = close_calls

\* HTTPAdapter._cleanup_expired_sessions: each expired session is popped and
\* its close is scheduled as a task
cleanup_expired_sessions ==
  /\ sessions' = SelectSeq(sessions, LAMBDA c : c \notin expired_sessions)
  /\ close_calls' = [c \in Conns |->
                       IF c \in expired_sessions THEN close_calls[c] + 1
                       ELSE close_calls[c]]

\* one pass of HTTPAdapter._cleanup_loop after its sleep; the task runs until
\* terminate() cancels it.  An exception of the first sweep is caught by the
\* loop and the second sweep of that pass is not made
CleanupLoop ==
  /\ adapter = "http_adapter"
  /\ running
  /\ cleanup_expired_responses
  /\ IF sweep_raises THEN UNCHANGED <<sessions, close_calls>>
     ELSE cleanup_expired_sessions
  /\ UNCHANGED <<now, ticks, nextReq, kind, pc, status, response, created_at, timeout,
                 result, sends, late, committed, total_requests_processed, total_errors>>
  /\ UNCHANGED <<conn, nextConn, last_active, message_count, termVars, extVars, streamVars>>

\* an administrative request with Authorization header hdr and its answer:
\* the status and what the body carries
admin_reply(endpoint, hdr, st, body) ==
  [endpoint |-> endpoint, hdr |-> hdr, status |-> st, body |-> body]

\* HTTPAdapter._handle_get_stats: GET /stats runs both cleanups too
HandleGetStats(hdr) ==
  /\ adapter = "http_adapter"
  /\ IF check_auth(hdr) # 0
       THEN /\ admin' = admin_reply("stats", hdr, check_auth(hdr), "error")
            /\ UNCHANGED <<future, invalid_state, pending_responses, sessions, close_calls>>
       ELSE /\ cleanup_expired_responses
            /\ IF sweep_raises
                 THEN \* the TypeError leaves the handler
                      /\ admin' = admin_reply("stats", hdr, UNCAUGHT, "none")
                      /\ UNCHANGED <<sessions, close_calls>>
                 ELSE /\ admin' = admin_reply("stats", hdr, OK, "state")
                      /\ cleanup_expired_sessions
  /\ UNCHANGED <<now, ticks, nextReq, kind, pc, status, response, created_at, timeout,
                 result, sends, late, committed, total_requests_processed, total_errors>>
  /\ UNCHANGED <<conn, nextConn, last_active, message_count, termVars, cleanup_task, putVars, wsVars, sinkVars, bufVars,
                 streamVars>>

\* ------------------------------------------------------ WebSocket sessions
Range(q) == {q[i] : i \in 1..Len(q)}

\* eviction of the first key of the dict, whatever its last_active
oldest_inserted(reg, la) == reg[1]

\* min(self.sessions.keys(), key=last_active): the first key, in the dict's
\* insertion order, whose last_active is the smallest
oldest_session(reg, la) ==
  LET least == {i \in 1..Len(reg) : \A j \in 1..Len(reg) : la[reg[j]] >= la[reg[i]]}
      first == CHOOSE i \in least : \A j \in least : i <= j
  IN reg[first]

\* ws.headers.get('Authorization', '').replace('Bearer ', ''): every
\* occurrence of the prefix is taken out, wherever it stands
replace_bearer(hdr) ==
  CASE hdr = "absent" -> ""
    [] hdr = "Bearer tok" -> "tok"
    [] hdr = "Bearer bad" -> "bad"
    [] hdr = "tok" -> "tok"
    [] hdr = "Bearer Bearer tok" -> "tok"

\* a check that lets every connection in
ws_check_auth_open(arg, hdr) == TRUE

\* the token check at the head of _handle_websocket_connection: the token
\* parameter of the URL if it is not empty, else the header without its prefix
ws_check_auth(arg, hdr) ==
  \/ auth_token = ""
  \/ (IF arg # "" THEN arg ELSE replace_bearer(hdr)) = auth_token

\* HTTPAdapter._handle_websocket_connection from its start to its first
\* suspension: the session is made, and with a full registry the oldest
\* session is popped and its close awaited
WebSocketConnect(c, arg, hdr) ==
  /\ adapter = "http_adapter"
  /\ c = nextConn /\ c \in Conns
  /\ nextConn' = nextConn + 1
  /\ UNCHANGED <<coreVars, termVars, extVars, streamVars, message_count>>
  /\ IF ~ws_check_auth(arg, hdr)
       THEN /\ conn' = [conn EXCEPT ![c] = "refused"]
            /\ UNCHANGED <<sessions, last_active, close_calls>>
       ELSE /\ last_active' = [last_active EXCEPT ![c] = now]
            /\ IF Len(sessions) >= max_sessions
                 THEN LET oldest == oldest_session(sessions, last_active) IN
                      /\ sessions' = SelectSeq(sessions, LAMBDA x : x # oldest)
                      /\ close_calls' = [close_calls EXCEPT ![oldest] = @ + 1]
                      /\ conn' = [conn EXCEPT ![c] = "evicting"]
                 ELSE /\ sessions' = Append(sessions, c)
                      /\ conn' = [conn EXCEPT ![c] = "open"]
                      /\ UNCHANGED close_calls

\* the close of the evicted session returns: the new session is registered
WebSocketAdmit(c) ==
  /\ adapter = "http_adapter"
  /\ conn[c] = "evicting"
  /\ sessions' = Append(sessions, c)
  /\ conn' = [conn EXCEPT ![c] = "open"]
  /\ UNCHANGED <<coreVars, termVars, extVars, streamVars, nextConn, last_active, message_count, close_calls>>

\* the connection ends (receive returns None or raises): the finally block
\* removes the session if it is registered
WebSocketDisconnect(c) ==
  /\ adapter = "http_adapter"
  /\ conn[c] = "open"
  /\ sessions' = SelectSeq(sessions, LAMBDA x : x # c)
  /\ conn' = [conn EXCEPT ![c] = "gone"]
  /\ UNCHANGED <<coreVars, termVars, extVars, streamVars, nextConn, last_active, message_count, close_calls>>

\* HTTPSession.handle_message / _handle_message for a frame of type "message"
\* received on connection c: activity is recorded, the entry registered, the
\* event built and committed
WebSocketMessage(c, e, body, tmo) ==
  /\ adapter = "http_adapter"
  /\ conn[c] = "open"
  /\ e = nextReq
  /\ last_active' = [last_active EXCEPT ![c] = now]
  /\ message_count' = [message_count EXCEPT ![c] = @ + 1]
  /\ UNCHANGED <<sessions, conn, nextConn, close_calls, termVars, extVars, streamVars>>
  /\ kind' = [kind EXCEPT ![e] = "ws"]
  /\ pc' = [pc EXCEPT ![e] = "done"]
  /\ nextReq' = nextReq + 1
  /\ UNCHANGED <<now, ticks, status, response, result, invalid_state, sends, late,
                 total_requests_processed, total_errors>>
  /\ LET request_data == HTTPRequestData(ws_request_kwargs) IN
     IF body # "msg" \/ ~request_data.ok
       THEN UNCHANGED <<pending_responses, created_at, timeout, future, committed>>
       ELSE /\ pending_responses' = pending_responses \cup {e}
            /\ created_at' = [created_at EXCEPT ![e] = now]
            /\ timeout' = [timeout EXCEPT ![e] = tmo]
            /\ future' = [future EXCEPT ![e] = "pending"]
            /\ committed' = IF HTTPMessageEvent_init(request_data)
                              THEN committed \cup {e} ELSE committed

\* HTTPSession.handle_message for a frame of type "ping" received on
\* connection c: activity is recorded, a pong sent
WebSocketPing(c) ==
  /\ adapter = "http_adapter"
  /\ conn[c] = "open"
  /\ message_count[c] < MaxMessages
  /\ last_active' = [last_active EXCEPT ![c] = now]
  /\ message_count' = [message_count EXCEPT ![c] = @ + 1]
  /\ UNCHANGED <<coreVars, termVars, extVars, streamVars, sessions, conn, nextConn, close_calls>>

\* ----------------------------------------------------------------- shutdown
\* HTTPAdapter.terminate to its first suspension: _running is cleared, the
\* cleanup task cancelled and awaited
TerminateStart ==
  /\ adapter = "http_adapter"
  /\ term = "idle"
  /\ running' = FALSE
  /\ term' = "await_cleanup"
  /\ UNCHANGED <<coreVars, sessVars, adapter, extVars, streamVars, closing>>

\* the tail of terminate without the loop that fails the futures
terminate_tail_clear ==
  /\ future' = future
  /\ pending_responses' = {}
  /\ sessions' = <<>>
  /\ closing' = {}
  /\ term' = "done"

\* the tail of HTTPAdapter.terminate: every pending future is failed with
\* CancelledError, both tables are cleared
terminate_tail ==
  /\ future' = [e \in Reqs |->
                  IF e \in pending_responses /\ ~done(e) THEN "cancelled_error"
                  ELSE future[e]]
  /\ pending_responses' = {}
  /\ sessions' = <<>>
  /\ closing' = {}
  /\ term' = "done"

\* terminate after the cleanup task ended: a close() is made for every
\* session now registered and the gather of them awaited; with no session
\* there is nothing to await
TerminateCloseSessions ==
  /\ adapter = "http_adapter"
  /\ term = "await_cleanup"
  /\ UNCHANGED <<now, ticks, nextReq, kind, pc, status, response, created_at, timeout,
                 result, invalid_state, sends, late, committed, total_requests_processed,
                 total_errors>>
  /\ UNCHANGED <<conn, nextConn, last_active, message_count, adapter, extVars, streamVars, running>>
  /\ IF sessions = <<>>
       THEN terminate_tail /\ UNCHANGED close_calls
       ELSE /\ closing' = Range(sessions)
            /\ close_calls' = [c \in Conns |->
                                 IF c \in Range(sessions) THEN close_calls[c] + 1
                                 ELSE close_calls[c]]
            /\ term' = "gathering"
            /\ UNCHANGED <<pending_responses, future, sessions>>

\* the gather returned
TerminateFinish ==
  /\ adapter = "http_adapter"
  /\ term = "gathering"
  /\ terminate_tail
  /\ UNCHANGED <<now, ticks, nextReq, kind, pc, status, response, created_at, timeout,
                 result, invalid_state, sends, late, committed, total_requests_processed,
                 total_errors>>
  /\ UNCHANGED <<conn, nextConn, last_active, message_count, close_calls, adapter, extVars, streamVars, running>>

\* SimpleHTTPAdapter.terminate to its suspension in server.stop()
SimpleTerminate ==
  /\ adapter = "simple_http"
  /\ term = "idle"
  /\ future' = [e \in Reqs |->
                  IF e \in pending_responses /\ ~done(e) THEN "cancelled_error"
                  ELSE future[e]]
  /\ pending_responses' = {}
  /\ term' = "stopping"
  /\ UNCHANGED <<now, ticks, nextReq, kind, pc, status, response, created_at, timeout,
                 result, invalid_state, sends, late, committed, total_requests_processed,
                 total_errors>>
  /\ UNCHANGED <<sessVars, adapter, extVars, streamVars, running, closing>>

\* server.stop() returned
SimpleTerminateDone ==
  /\ adapter = "simple_http"
  /\ term = "stopping"
  /\ term' = "done"
  /\ UNCHANGED <<coreVars, sessVars, adapter, extVars, streamVars, running, closing>>

\* ------------------------------------------------------------ SSE streaming
\* One POST /message/stream request: generate() of _handle_http_stream_message
\* and the StreamHTTPMessageEvent the consumer holds.

\* queue items and SSE frames
stream_item(k) == [type |-> "stream", data |-> ToString(k)]
end_item == [type |-> "end", data |-> "{}"]
error_item == [type |-> "error", data |-> "error"]
end_error_item == [type |-> "end", data |-> "error: true"]
connected_frame == [type |-> "connected", data |-> "event_id"]
timeout_frame == [type |-> "timeout", data |-> "total_timeout"]
heartbeat_frame == [type |-> "heartbeat", data |-> ""]
cancelled_frame == [type |-> "end", data |-> "cancelled"]

\* the event: <type> / data: <json> frame generate() yields for a queue item
item_frame(item) == [type |-> item.type, data |-> item.data]

\* the puts StreamHTTPMessageEvent.send makes for a chain of n messages, the
\* consumer having produced `made` chunks before
send_puts(made, n) == [i \in 1..n |-> stream_item(made + i)]

\* send_streaming whose except branch stops after the error item
send_streaming_puts_error_only(made, n, raises) ==
  [i \in 1..n |-> [type |-> "stream", data |-> ToString(made + i)]] \o
    (IF raises THEN <<[type |-> "error", data |-> "error"]>>
     ELSE <<[type |-> "end", data |-> "{}"]>>)

\* the puts StreamHTTPMessageEvent.send_streaming makes for a generator that
\* yields n messages and then ends or raises
send_streaming_puts(made, n, raises) ==
  send_puts(made, n) \o
    (IF raises THEN <<error_item, end_error_item>> ELSE <<end_item>>)

\* generate() after its first yield: the event built and committed, the
\* connected frame sent, the timers started
InitStream ==
  /\ InitAdapter
  /\ adapter = "http_adapter"
  /\ queue = <<>>
  /\ enqueued = <<>>
  /\ frames = <<connected_frame>>
  /\ gen = "head"
  /\ stream_timeout \in StreamTimeouts
  /\ start_time = now
  /\ last_activity_time = now
  /\ poll_start = now
  /\ todo = <<>>
  /\ chunks_made = 0
  /\ end_tasks = 0

\* the consumer calls event.send(chain), the chain having n messages
SinkSend(n) ==
  /\ gen # "none"
  /\ todo = <<>>
  /\ Len(enqueued) + end_tasks + n <= MaxPuts
  /\ todo' = send_puts(chunks_made, n)
  /\ chunks_made' = chunks_made + n
  /\ UNCHANGED <<coreVars, sessVars, termVars, extVars, queue, enqueued, frames, gen,
                 stream_timeout, start_time, last_activity_time, poll_start, end_tasks>>

\* the consumer calls event.send_streaming(generator)
SinkSendStreaming(n, raises) ==
  /\ gen # "none"
  /\ todo = <<>>
  /\ Len(enqueued) + end_tasks + Len(send_streaming_puts(chunks_made, n, raises)) <= MaxPuts
  /\ todo' = send_streaming_puts(chunks_made, n, raises)
  /\ chunks_made' = chunks_made + n
  /\ UNCHANGED <<coreVars, sessVars, termVars, extVars, queue, enqueued, frames, gen,
                 stream_timeout, start_time, last_activity_time, poll_start, end_tasks>>

\* the consumer calls event.mark_conversation_end(): a task is made that
\* puts an end item
SinkMarkConversationEnd ==
  /\ gen # "none"
  /\ Len(enqueued) + Len(todo) + end_tasks < MaxPuts
  /\ end_tasks' = end_tasks + 1
  /\ UNCHANGED <<coreVars, sessVars, termVars, extVars, queue, enqueued, frames, gen,
                 stream_timeout, start_time, last_activity_time, poll_start, todo,
                 chunks_made>>

\* await self.queue.put(item) of the running sink call: it waits while the
\* queue is full
QueuePut ==
  /\ todo # <<>>
  /\ Len(queue) < QUEUE_MAXSIZE
  /\ queue' = Append(queue, Head(todo))
  /\ enqueued' = Append(enqueued, Head(todo))
  /\ todo' = Tail(todo)
  /\ UNCHANGED <<coreVars, sessVars, termVars, extVars, frames, gen, stream_timeout, start_time,
                 last_activity_time, poll_start, chunks_made, end_tasks>>

\* a task of mark_conversation_end runs its put
EndTaskPut ==
  /\ end_tasks > 0
  /\ Len(queue) < QUEUE_MAXSIZE
  /\ queue' = Append(queue, end_item)
  /\ enqueued' = Append(enqueued, end_item)
  /\ end_tasks' = end_tasks - 1
  /\ UNCHANGED <<coreVars, sessVars, termVars, extVars, frames, gen, stream_timeout, start_time,
                 last_activity_time, poll_start, todo, chunks_made>>

\* the head of generate()'s loop: the total timeout ends the stream with a
\* timeout frame, 60 idle seconds give a heartbeat, then the queue is polled
GenLoopHead ==
  /\ gen = "head"
  /\ IF now - start_time > stream_timeout
       THEN /\ frames' = Append(frames, timeout_frame)
            /\ gen' = "done"
            /\ UNCHANGED <<last_activity_time, poll_start>>
       ELSE /\ IF now - last_activity_time > HEARTBEAT_AFTER
                 THEN /\ frames' = Append(frames, heartbeat_frame)
                      /\ last_activity_time' = now
                 ELSE UNCHANGED <<frames, last_activity_time>>
            /\ gen' = "polling"
            /\ poll_start' = now
  /\ UNCHANGED <<coreVars, sessVars, termVars, extVars, queue, enqueued, stream_timeout,
                 start_time, todo, chunks_made, end_tasks>>

\* GenGet on a queue that hands out its newest item
GenGet_lifo ==
  /\ gen = "polling"
  /\ queue # <<>>
  /\ LET item == queue[Len(queue)] IN
       /\ queue' = SubSeq(queue, 1, Len(queue) - 1)
       /\ last_activity_time' = now
       /\ frames' = Append(frames, item_frame(item))
       /\ gen' = IF item.type = "end" THEN "done" ELSE "head"
  /\ UNCHANGED <<coreVars, sessVars, termVars, extVars, enqueued, stream_timeout, start_time,
                 poll_start, todo, chunks_made, end_tasks>>

\* GenGet without the break on an end item
GenGet_no_break ==
  /\ gen = "polling"
  /\ queue # <<>>
  /\ LET item == Head(queue) IN
       /\ queue' = Tail(queue)
       /\ last_activity_time' = now
       /\ frames' = Append(frames, item_frame(item))
       /\ gen' = "head"
  /\ UNCHANGED <<coreVars, sessVars, termVars, extVars, enqueued, stream_timeout, start_time,
                 poll_start, todo, chunks_made, end_tasks>>

\* GenGet with a deadline that starts again at every chunk
GenGet_extends ==
  /\ gen = "polling"
  /\ queue # <<>>
  /\ LET item == Head(queue) IN
       /\ queue' = Tail(queue)
       /\ last_activity_time' = now
       /\ start_time' = now
       /\ frames' = Append(frames, item_frame(item))
       /\ gen' = IF item.type = "end" THEN "done" ELSE "head"
  /\ UNCHANGED <<coreVars, sessVars, termVars, extVars, enqueued, stream_timeout,
                 poll_start, todo, chunks_made, end_tasks>>

\* queue.get() returns an item: its frame is yielded; an end item ends the
\* loop
GenGet ==
  /\ gen = "polling"
  /\ queue # <<>>
  /\ LET item == Head(queue) IN
       /\ queue' = Tail(queue)
       /\ last_activity_time' = now
       /\ frames' = Append(frames, item_frame(item))
       /\ gen' = IF item.type = "end" THEN "done" ELSE "head"
  /\ UNCHANGED <<coreVars, sessVars, termVars, extVars, enqueued, stream_timeout, start_time,
                 poll_start, todo, chunks_made, end_tasks>>

\* wait_for(queue.get(), timeout=1.0) runs out: continue
GenPollTimeout ==
  /\ gen = "polling"
  /\ queue = <<>>
  /\ now - poll_start >= POLL_TIMEOUT
  /\ gen' = "head"
  /\ UNCHANGED <<coreVars, sessVars, termVars, extVars, queue, enqueued, frames, stream_timeout,
                 start_time, last_activity_time, poll_start, todo, chunks_made, end_tasks>>

\* the request's task is cancelled while generate() waits on the queue: the
\* CancelledError branch yields an end frame, then the finally block runs
GenCancel ==
  /\ gen = "polling"
  /\ frames' = Append(frames, cancelled_frame)
  /\ gen' = "done"
  /\ UNCHANGED <<coreVars, sessVars, termVars, extVars, queue, enqueued, stream_timeout,
                 start_time, last_activity_time, poll_start, todo, chunks_made, end_tasks>>

\* the server closes the generator while it is suspended at a yield:
\* GeneratorExit runs the finally block only
GenClose ==
  /\ gen = "head"
  /\ gen' = "done"
  /\ UNCHANGED <<coreVars, sessVars, termVars, extVars, queue, enqueued, frames, stream_timeout,
                 start_time, last_activity_time, poll_start, todo, chunks_made, end_tasks>>

\* --------------------------------------------------------------------- Next
vars == <<coreVars, sessVars, termVars, streamVars, extVars>>

\* The correlation core: well-formed, authorised requests on the three entry
\* points (one WebSocket connection carries the WebSocket messages), the
\* sinks, the sweeper and both shutdowns.
Next ==
  \/ \E d \in {1, DEFAULT_TIMEOUT} : Tick(d)
  \/ \E e \in Reqs, tmo \in Timeouts : HandleHttpMessage(e, "Bearer tok", "msg", tmo)
  \/ \E e \in Reqs : HandleSimpleMessage(e, "Bearer tok", "msg")
  \/ \E e \in Reqs : WaitForTimeout(e)
  \/ \E e \in Reqs : HandlerTimeout(e)
  \/ \E e \in Reqs : HandlerResume(e)
  \/ \E e \in Reqs, v \in Values : StandardSend(e, v)
  \/ \E e \in Reqs, v \in Values : SendResponse(e, v)
  \/ \E e \in Reqs, v \in Values, delivered \in BOOLEAN : WebSocketSend(e, v, delivered)
  \/ \E e \in Reqs, v \in Values : SimpleSend(e, v)
  \/ CleanupLoop
  \/ HandleGetStats("Bearer tok")
  \/ WebSocketConnect(1, "", "Bearer tok")
  \/ \E e \in Reqs, tmo \in Timeouts : WebSocketMessage(1, e, "msg", tmo)
  \/ TerminateStart
  \/ TerminateCloseSessions
  \/ TerminateFinish
  \/ SimpleTerminate
  \/ SimpleTerminateDone

Spec == Init /\ [][Next]_vars

\* The session registry: WebSocket connections arriving, served and ending,
\* the sweeper and shutdown.
InitSessions == Init /\ adapter = "http_adapter"

NextSessions ==
  \/ Tick(1)
  \/ \E c \in Conns : WebSocketConnect(c, "", "Bearer tok")
  \/ \E c \in Conns : WebSocketAdmit(c)
  \/ \E c \in Conns : WebSocketPing(c)
  \/ \E c \in Conns : WebSocketDisconnect(c)
  \/ CleanupLoop
  \/ TerminateStart
  \/ TerminateCloseSessions
  \/ TerminateFinish

SpecSessions == InitSessions /\ [][NextSessions]_vars

\* One streaming request: its generator, the consumer's sink calls, the clock.
NextStream ==
  \/ \E d \in {1, DEFAULT_TIMEOUT} : Tick(d)
  \/ \E n \in 1..MaxChain : SinkSend(n)
  \/ \E n \in 0..MaxChain, raises \in BOOLEAN : SinkSendStreaming(n, raises)
  \/ SinkMarkConversationEnd
  \/ QueuePut
  \/ EndTaskPut
  \/ GenLoopHead
  \/ GenGet
  \/ GenPollTimeout
  \/ GenCancel
  \/ GenClose

SpecStream == InitStream /\ [][NextStream]_vars

\* ------------------------------------- httpmessageevent.py: streaming sink
\* StreamHTTPMessageEvent of httpmessageevent.py, the event class whose puts
\* are bounded by _safe_put.  Its queue is the one handed to __init__;
\* `enqueued` holds what the queue accepted, `dropped` what _safe_put gave up.
genVars == <<queue, frames, gen, stream_timeout, start_time, last_activity_time,
             poll_start, todo, end_tasks>>

message_item(k) == [type |-> "message", data |-> ToString(k)]
end_signal_item == [type |-> "end", data |-> "{}"]
error_signal_item == [type |-> "error", data |-> "error"]

\* _safe_put: wait_for(queue.put(item), 1.0); `room` says whether the queue
\* had room within that second.  The pair is <<accepted, given up>>.
safe_put(acc, drp, item, room) ==
  IF room THEN <<Append(acc, item), drp>> ELSE <<acc, Append(drp, item)>>

\* the puts of one for-loop over a chain of n messages, of which the first
\* k find room; the loop breaks at the first put that does not
chain_puts(acc, drp, made, n, k) ==
  <<acc \o [i \in 1..k |-> message_item(made + i)],
    IF k < n THEN Append(drp, message_item(made + k + 1)) ELSE drp>>

\* send_end_signal once it is past its wait: one _safe_put of the end item
end_signal_put(acc, drp, room) == safe_put(acc, drp, end_signal_item, room)

\* send(message_chain) with n messages
StreamSend(n, k, room) ==
  /\ adapter = "http_adapter"
  /\ Len(enqueued) + Len(dropped) + gen_left + n + 2 <= MaxPuts
  /\ LET ended == chain_puts(enqueued, dropped, chunks_made, n, k)
         final == IF finalcall THEN end_signal_put(ended[1], ended[2], room)
                  ELSE ended
     IN /\ enqueued' = final[1]
        /\ dropped' = final[2]
  /\ chunks_made' = chunks_made + n
  /\ is_streaming' = FALSE
  /\ stream_complete' = (is_streaming \/ stream_complete)
  /\ finalcall' = FALSE
  /\ UNCHANGED <<coreVars, sessVars, termVars, genVars, bufVars, admin, cleanup_task, putVars, wsVars,
                 streaming, gen_left, end_wait>>

\* send_streaming up to its first await: the flags, then the generator
StreamSendStreaming(n) ==
  /\ adapter = "http_adapter"
  /\ streaming = "idle"
  /\ Len(enqueued) + Len(dropped) + n + 2 <= MaxPuts
  /\ is_streaming' = TRUE
  /\ stream_complete' = FALSE
  /\ streaming' = "generating"
  /\ gen_left' = n
  /\ gen_made' = <<>>
  /\ UNCHANGED <<coreVars, sessVars, termVars, genVars, bufVars, admin, cleanup_task, put_state, put_start, put_result, wsVars,
                 enqueued, chunks_made, finalcall, end_wait, dropped>>

\* queue_put_generator without line 294: a failed put leaves the flag set
StreamGenNext_keeps_flag(room) ==
  /\ streaming = "generating"
  /\ gen_left > 0
  /\ chunks_made' = chunks_made + 1
  /\ gen_made' = Append(gen_made, [type |-> "message", data |-> ToString(chunks_made + 1)])
  /\ IF ~is_streaming
       THEN /\ gen_left' = 0
            /\ UNCHANGED <<enqueued, dropped, is_streaming>>
       ELSE /\ gen_left' = gen_left - 1
            /\ IF room
                 THEN /\ enqueued' = Append(enqueued, [type |-> "message", data |-> ToString(chunks_made + 1)])
                      /\ dropped' = dropped
                 ELSE /\ dropped' = Append(dropped, [type |-> "message", data |-> ToString(chunks_made + 1)])
                      /\ enqueued' = enqueued
            /\ is_streaming' = is_streaming
  /\ UNCHANGED <<coreVars, sessVars, termVars, genVars, bufVars, admin, cleanup_task,
                 put_state, put_start, put_result, wsVars,
                 finalcall, stream_complete, streaming, end_wait>>

\* queue_put_generator: the generator yields its next chain (one message)
StreamGenNext(room) ==
  /\ streaming = "generating"
  /\ gen_left > 0
  /\ chunks_made' = chunks_made + 1
  /\ gen_made' = Append(gen_made, message_item(chunks_made + 1))
  /\ IF ~is_streaming
       THEN /\ gen_left' = 0
            /\ UNCHANGED <<enqueued, dropped, is_streaming>>
       ELSE /\ gen_left' = gen_left - 1
            /\ LET r == safe_put(enqueued, dropped, message_item(chunks_made + 1), room)
               IN enqueued' = r[1] /\ dropped' = r[2]
            /\ is_streaming' = room
  /\ UNCHANGED <<coreVars, sessVars, termVars, genVars, bufVars, admin, cleanup_task, put_state, put_start, put_result, wsVars,
                 finalcall, stream_complete, streaming, end_wait>>

\* the generator raises: the except branch puts an error item and re-raises
StreamGenRaise(room) ==
  /\ streaming = "generating"
  /\ LET r == safe_put(enqueued, dropped, error_signal_item, room)
     IN enqueued' = r[1] /\ dropped' = r[2]
  /\ is_streaming' = FALSE
  /\ stream_complete' = TRUE
  /\ streaming' = "idle"
  /\ gen_left' = 0
  /\ UNCHANGED <<coreVars, sessVars, termVars, genVars, bufVars, admin, cleanup_task, putVars, wsVars,
                 chunks_made, finalcall, end_wait>>

\* the generator is exhausted: the rest of send_streaming
StreamGenDone(room) ==
  /\ streaming = "generating"
  /\ gen_left = 0
  /\ LET r == end_signal_put(enqueued, dropped, room)
     IN enqueued' = r[1] /\ dropped' = r[2]
  /\ finalcall' = FALSE
  /\ is_streaming' = FALSE
  /\ stream_complete' = TRUE
  /\ streaming' = "idle"
  /\ UNCHANGED <<coreVars, sessVars, termVars, genVars, bufVars, admin, cleanup_task, putVars, wsVars,
                 chunks_made, gen_left, end_wait>>

StreamSetFinalCall ==
  /\ adapter = "http_adapter"
  /\ ~finalcall
  /\ finalcall' = TRUE
  /\ UNCHANGED <<coreVars, sessVars, termVars, streamVars, bufVars, admin, cleanup_task, putVars, wsVars,
                 is_streaming, stream_complete, streaming, gen_left, end_wait, dropped>>

\* send_end_signal: waits for _stream_complete while a stream is running
StreamSendEndSignal(room) ==
  /\ adapter = "http_adapter"
  /\ end_wait = "idle"
  /\ Len(enqueued) + Len(dropped) + gen_left + 2 <= MaxPuts
  /\ IF is_streaming
       THEN /\ end_wait' = "waiting"
            /\ UNCHANGED <<enqueued, dropped, is_streaming>>
       ELSE /\ LET r == end_signal_put(enqueued, dropped, room)
               IN enqueued' = r[1] /\ dropped' = r[2]
            /\ UNCHANGED <<end_wait, is_streaming>>
  /\ UNCHANGED <<coreVars, sessVars, termVars, genVars, bufVars, admin, cleanup_task, putVars, wsVars,
                 chunks_made, finalcall, stream_complete, streaming, gen_left>>

\* its wait ends: _stream_complete was set, or the 5 seconds ran out
StreamEndWaitOver(room) ==
  /\ end_wait = "waiting"
  /\ end_wait' = "idle"
  /\ is_streaming' = (is_streaming /\ stream_complete)
  /\ LET r == end_signal_put(enqueued, dropped, room)
     IN enqueued' = r[1] /\ dropped' = r[2]
  /\ UNCHANGED <<coreVars, sessVars, termVars, genVars, bufVars, admin, cleanup_task, putVars, wsVars,
                 chunks_made, finalcall, stream_complete, streaming, gen_left>>

InitSink == Init /\ adapter = "http_adapter"

NextSink ==
  \/ \E n \in 0..MaxChain : \E k \in 0..n, room \in BOOLEAN : StreamSend(n, k, room)
  \/ \E n \in 0..MaxChain : StreamSendStreaming(n)
  \/ \E room \in BOOLEAN : StreamGenNext(room)
  \/ \E room \in BOOLEAN : StreamGenRaise(room)
  \/ \E room \in BOOLEAN : StreamGenDone(room)
  \/ StreamSetFinalCall
  \/ \E room \in BOOLEAN : StreamSendEndSignal(room)
  \/ \E room \in BOOLEAN : StreamEndWaitOver(room)

SpecSink == InitSink /\ [][NextSink]_vars

\* ------------------------------------------------ back-pressure on the sink
\* A chain, or a generator, long enough to fill the queue of generate():
\* one more message than the queue holds.
LongChain == QUEUE_MAXSIZE + 1

\* event.send(chain) with a chain of LongChain messages
SinkSendLong ==
  /\ gen # "none"
  /\ todo = <<>>
  /\ chunks_made = 0
  /\ todo' = send_puts(chunks_made, LongChain)
  /\ chunks_made' = chunks_made + LongChain
  /\ UNCHANGED <<coreVars, sessVars, termVars, extVars, queue, enqueued, frames, gen,
                 stream_timeout, start_time, last_activity_time, poll_start, end_tasks>>

\* event.send_streaming(generator), the generator yielding QUEUE_MAXSIZE
\* messages, so that the end item is the put that finds the queue full
SinkSendStreamingLong(raises) ==
  /\ gen # "none"
  /\ todo = <<>>
  /\ chunks_made = 0
  /\ todo' = send_streaming_puts(chunks_made, QUEUE_MAXSIZE, raises)
  /\ chunks_made' = chunks_made + QUEUE_MAXSIZE
  /\ UNCHANGED <<coreVars, sessVars, termVars, extVars, queue, enqueued, frames, gen,
                 stream_timeout, start_time, last_activity_time, poll_start, end_tasks>>

\* One streaming request whose consumer makes one long call; the client may
\* drop the connection at any time.
NextStall ==
  \/ SinkSendLong
  \/ \E raises \in BOOLEAN : SinkSendStreamingLong(raises)
  \/ QueuePut
  \/ GenLoopHead
  \/ GenGet
  \/ GenCancel
  \/ GenClose

\* The event loop runs every task that can run: a put that has room is made,
\* generate() goes on while it is not ended.  Nothing obliges the client to
\* stay.
SpecStall ==
  /\ InitStream
  /\ [][NextStall]_vars
  /\ WF_vars(QueuePut)
  /\ WF_vars(GenLoopHead)
  /\ WF_vars(GenGet)

\* ------------------------------------- httpmessageevent.py: buffering sink
\* StandardHTTPMessageEvent of httpmessageevent.py: send caches, send_response
\* resolves the entry with the cache.

\* one entry of _cached_response: BMC2Dict's pair for the k-th unit passed
response_unit(k) == [content |-> ToString(k), type |-> "Plain"]

\* the list send builds for a chain of n messages
full_response(made, n) == [i \in 1..n |-> response_unit(made + i)]

\* list.extend at the wrong end
extend_front(cache, units) == units \o cache

\* self._cached_response.extend(full_response)
extend(cache, units) == cache \o units

\* set_result(self._cached_response) stores the list object itself, so the
\* value of a future resolved by send_response is the list as it is now
future_value(e, cache) ==
  IF future[e] = "result" THEN [result EXCEPT ![e] = cache] ELSE result

\* send_response, the cache being `cache` when it runs
send_response(e, cache) ==
  /\ sends' = [sends EXCEPT ![e] = @ + 1]
  /\ pending_responses' = pending_responses \ {e}
  /\ IF e \in pending_responses /\ ~done(e)
       THEN /\ future' = [future EXCEPT ![e] = "result"]
            /\ result' = [result EXCEPT ![e] = cache]
            /\ resolved_with' = [resolved_with EXCEPT ![e] = cache]
       ELSE /\ result' = future_value(e, cache)
            /\ UNCHANGED <<future, resolved_with>>
  /\ UNCHANGED <<now, ticks, nextReq, kind, pc, status, response, created_at, timeout,
                 invalid_state, late, committed, total_requests_processed, total_errors>>

\* send(message_chain) of the event with id e, the chain having n messages
BufSend(e, n) ==
  /\ adapter = "http_adapter"
  /\ e \in committed
  /\ units_made + n <= MaxUnits
  /\ n = 0 => final_call[e]
  /\ final_call[e] => sends[e] < MaxSends
  /\ LET cache == extend(cached_response[e], full_response(units_made, n)) IN
       /\ cached_response' = [cached_response EXCEPT ![e] = cache]
       /\ passed' = [passed EXCEPT ![e] = @ \o full_response(units_made, n)]
       /\ units_made' = units_made + n
       /\ final_call' = [final_call EXCEPT ![e] = FALSE]
       /\ IF final_call[e]
            THEN send_response(e, cache)
            ELSE /\ result' = future_value(e, cache)
                 /\ UNCHANGED <<now, ticks, nextReq, kind, pc, status, response,
                                pending_responses, created_at, timeout, future,
                                invalid_state, sends, late, committed,
                                total_requests_processed, total_errors, resolved_with>>
  /\ UNCHANGED <<sessVars, termVars, streamVars, sinkVars, admin, cleanup_task, putVars, wsVars>>

\* send_streaming: every chain of the generator is collected, then the merged
\* chain of n messages is passed to send (a generator that yields no chain
\* makes send_streaming return having changed nothing)
BufSendStreaming(e, n) ==
  /\ e \in committed
  /\ BufSend(e, n)

\* send_response without its lookup and its done() test
BufSendResponse_unguarded(e) ==
  /\ adapter = "http_adapter"
  /\ e \in committed
  /\ sends[e] < MaxSends
  /\ sends' = [sends EXCEPT ![e] = @ + 1]
  /\ pending_responses' = pending_responses \ {e}
  /\ future' = [future EXCEPT ![e] = "result"]
  /\ result' = [result EXCEPT ![e] = cached_response[e]]
  /\ invalid_state' = invalid_state \cup (IF done(e) THEN {e} ELSE {})
  /\ UNCHANGED <<now, ticks, nextReq, kind, pc, status, response, created_at, timeout,
                 late, committed, total_requests_processed, total_errors>>
  /\ UNCHANGED <<sessVars, termVars, streamVars, sinkVars, admin, cleanup_task, putVars, wsVars, cached_response,
                 final_call, units_made, passed, resolved_with>>

\* send_response that leaves the entry in the table
BufSendResponse_keep(e) ==
  /\ adapter = "http_adapter"
  /\ e \in committed
  /\ sends[e] < MaxSends
  /\ sends' = [sends EXCEPT ![e] = @ + 1]
  /\ future' = IF e \in pending_responses /\ ~done(e)
                 THEN [future EXCEPT ![e] = "result"] ELSE future
  /\ result' = [result EXCEPT ![e] = cached_response[e]]
  /\ UNCHANGED <<now, ticks, nextReq, kind, pc, status, response, created_at, timeout,
                 pending_responses, invalid_state, late, committed,
                 total_requests_processed, total_errors>>
  /\ UNCHANGED <<sessVars, termVars, streamVars, sinkVars, admin, cleanup_task, putVars, wsVars, cached_response,
                 final_call, units_made, passed, resolved_with>>

\* the consumer calls send_response of the event with id e
BufSendResponse(e) ==
  /\ adapter = "http_adapter"
  /\ e \in committed
  /\ sends[e] < MaxSends
  /\ send_response(e, cached_response[e])
  /\ UNCHANGED <<sessVars, termVars, streamVars, sinkVars, admin, cleanup_task, putVars, wsVars, cached_response,
                 final_call, units_made, passed>>

BufSetFinalCall(e) ==
  /\ adapter = "http_adapter"
  /\ e \in committed
  /\ ~final_call[e]
  /\ final_call' = [final_call EXCEPT ![e] = TRUE]
  /\ UNCHANGED <<coreVars, sessVars, termVars, streamVars, sinkVars, admin, cleanup_task, putVars, wsVars,
                 cached_response, units_made, passed, resolved_with>>

\* _handle_http_message from its session_id step to its wait (652-707): the
\* entry is registered, the event built and committed, the handler waits
HttpMessageAccepted(e, tmo) ==
  /\ adapter = "http_adapter"
  /\ e = nextReq
  /\ kind' = [kind EXCEPT ![e] = "http"]
  /\ pending_responses' = pending_responses \cup {e}
  /\ created_at' = [created_at EXCEPT ![e] = now]
  /\ timeout' = [timeout EXCEPT ![e] = tmo]
  /\ future' = [future EXCEPT ![e] = "pending"]
  /\ committed' = committed \cup {e}
  /\ total_requests_processed' = total_requests_processed + 1
  /\ pc' = [pc EXCEPT ![e] = "waiting"]
  /\ nextReq' = nextReq + 1
  /\ UNCHANGED <<now, ticks, status, response, result, invalid_state, sends, late,
                 total_errors>>
  /\ UNCHANGED <<sessVars, termVars, extVars, streamVars>>

InitBuffer == Init /\ adapter = "http_adapter"

\* One request whose event is a buffering sink: the consumer's calls, the
\* waiting handler, the sweeper, the clock.
NextBuffer ==
  \/ \E d \in {1, DEFAULT_TIMEOUT} : Tick(d)
  \/ \E tmo \in Timeouts : HttpMessageAccepted(1, tmo)
  \/ \E e \in Reqs, n \in 0..MaxChain : BufSend(e, n)
  \/ \E e \in Reqs, n \in 0..MaxChain : BufSendStreaming(e, n)
  \/ \E e \in Reqs : BufSetFinalCall(e)
  \/ \E e \in Reqs : BufSendResponse(e)
  \/ \E e \in Reqs : WaitForTimeout(e)
  \/ \E e \in Reqs : HandlerTimeout(e)
  \/ \E e \in Reqs : HandlerResume(e)
  \/ CleanupLoop

SpecBuffer == InitBuffer /\ [][NextBuffer]_vars

\* -------------------------------------------------- the other entry points
\* the keywords _handle_http_stream_message passes to HTTPRequestData
stream_request_kwargs ==
  {"method", "url", "headers", "remote_addr", "user_agent", "content_type", "accept"}

\* HTTPAdapter._handle_http_stream_message and the prelude of its generate():
\* POST /message/stream with Authorization header hdr and JSON body `body`.
\* The handler answers 200 with the generator; the event is built when the
\* server first runs generate().
HandleHttpStreamMessage(e, hdr, body) ==
  /\ adapter = "http_adapter"
  /\ e = nextReq
  /\ UNCHANGED <<sessVars, termVars, extVars, streamVars>>
  /\ LET request_data == HTTPRequestData(stream_request_kwargs) IN
     IF check_auth(hdr) # 0 THEN Reject(e, "stream", check_auth(hdr), 0)
     ELSE IF body = "empty" THEN Reject(e, "stream", BAD_REQUEST, 0)
     ELSE IF body = "nomsg" THEN Reject(e, "stream", BAD_REQUEST, 0)
     ELSE IF ~request_data.ok THEN Reject(e, "stream", INTERNAL_ERROR, 1)
     ELSE /\ kind' = [kind EXCEPT ![e] = "stream"]
          /\ pc' = [pc EXCEPT ![e] = "done"]
          /\ status' = [status EXCEPT ![e] = OK]
          /\ nextReq' = nextReq + 1
          /\ IF HTTPMessageEvent_init(request_data)
               THEN /\ committed' = committed \cup {e}
                    /\ total_requests_processed' = total_requests_processed + 1
               ELSE UNCHANGED <<committed, total_requests_processed>>
          /\ UNCHANGED <<now, ticks, response, pending_responses, created_at, timeout,
                         future, result, invalid_state, sends, late, total_errors>>

\* what an administrative handler leaves alone when it only answers
AdminFrame ==
  /\ UNCHANGED <<coreVars, termVars, cleanup_task, putVars, wsVars, sinkVars, bufVars, streamVars>>
  /\ UNCHANGED <<conn, nextConn, last_active, message_count>>

\* GET /health: health_check answers with the lengths of both tables
HandleHealth(hdr) ==
  /\ adapter = "http_adapter"
  /\ admin' = admin_reply("health", hdr, OK, "state")
  /\ AdminFrame
  /\ UNCHANGED <<sessions, close_calls>>

\* GET /sessions: _handle_list_sessions
HandleListSessions(hdr) ==
  /\ adapter = "http_adapter"
  /\ admin' = IF check_auth(hdr) # 0
                THEN admin_reply("sessions", hdr, check_auth(hdr), "error")
                ELSE admin_reply("sessions", hdr, OK, "state")
  /\ AdminFrame
  /\ UNCHANGED <<sessions, close_calls>>

\* what `await self.websocket.close(code, reason)` does: it returns, or it
\* raises because the connection is closed already, or because the transport
\* fails
CloseOutcomes == {"returns", "RuntimeError", "OSError"}

\* the exceptions `except Exception` catches
is_Exception(exc) == exc \in {"RuntimeError", "OSError"}

\* a close() without its try block
close_raises_bare(exc) == exc # "returns"

\* HTTPSession.close: does the call raise when websocket.close ends as exc
close_raises(exc) == exc # "returns" /\ ~is_Exception(exc)

\* DELETE /sessions/{c}: _handle_delete_session
HandleDeleteSession(hdr, c) ==
  /\ adapter = "http_adapter"
  /\ AdminFrame
  /\ IF check_auth(hdr) # 0
       THEN /\ admin' = admin_reply("delete", hdr, check_auth(hdr), "error")
            /\ UNCHANGED <<sessions, close_calls>>
     ELSE IF c \in Range(sessions)
       THEN \E exc \in CloseOutcomes :
            /\ admin' = IF close_raises(exc)
                          THEN admin_reply("delete", hdr, UNCAUGHT, "none")
                          ELSE admin_reply("delete", hdr, OK, "deleted")
            /\ sessions' = SelectSeq(sessions, LAMBDA x : x # c)
            /\ close_calls' = [close_calls EXCEPT ![c] = @ + 1]
       ELSE /\ admin' = admin_reply("delete", hdr, NOT_FOUND, "error")
            /\ UNCHANGED <<sessions, close_calls>>

\* the connections clients open in the two specifications below: one more
\* than the registry holds, and as many as it holds
FewConns == 1..(max_sessions + 1)
AdminConns == 1..max_sessions

\* The submission entry points under every kind of request: any Authorization
\* header, any token parameter, any body, any timeout field.
NextIngress ==
  \/ \E e \in Reqs, hdr \in AuthHeaders, body \in Bodies, tmo \in TimeoutInputs :
       HandleHttpMessage(e, hdr, body, tmo)
  \/ \E e \in Reqs, hdr \in AuthHeaders, body \in Bodies :
       HandleHttpStreamMessage(e, hdr, body)
  \/ \E e \in Reqs, hdr \in AuthHeaders, body \in Bodies :
       HandleSimpleMessage(e, hdr, body)
  \/ \E c \in FewConns, arg \in QueryTokens, hdr \in AuthHeaders :
       WebSocketConnect(c, arg, hdr)
  \/ \E c \in FewConns : WebSocketAdmit(c)
  \/ \E c \in FewConns : WebSocketDisconnect(c)
  \/ \E c \in FewConns, e \in Reqs, body \in Bodies, tmo \in TimeoutInputs :
       WebSocketMessage(c, e, body, tmo)

SpecIngress == Init /\ [][NextIngress]_vars

\* The administrative endpoints under any Authorization header, next to
\* WebSocket clients that come, send and go, and the clock.
NextAdmin ==
  \/ Tick(1)
  \/ \E c \in AdminConns : WebSocketConnect(c, "", "Bearer tok")
  \/ \E c \in AdminConns : WebSocketDisconnect(c)
  \/ \E c \in AdminConns, e \in Reqs : WebSocketMessage(c, e, "msg", 1)
  \/ \E hdr \in AuthHeaders : HandleHealth(hdr)
  \/ \E hdr \in AuthHeaders : HandleListSessions(hdr)
  \/ \E hdr \in AuthHeaders, c \in AdminConns : HandleDeleteSession(hdr, c)
  \/ \E hdr \in AuthHeaders : HandleGetStats(hdr)

SpecAdmin == InitSessions /\ [][NextAdmin]_vars

\* ------------------------------------------------------- sweeps of the table
\* The two sweeps next to a WebSocket client whose messages carry any
\* "timeout" field, the sink of their events, and the clock.
NextSweep ==
  \/ Tick(1)
  \/ WebSocketConnect(1, "", "Bearer tok")
  \/ WebSocketDisconnect(1)
  \/ \E e \in Reqs, tmo \in TimeoutInputs : WebSocketMessage(1, e, "msg", tmo)
  \/ \E e \in Reqs : WebSocketSend(e, 1, TRUE)
  \/ CleanupLoop
  \/ HandleGetStats("Bearer tok")

SpecSweep == InitSessions /\ [][NextSweep]_vars

\* ------------------------------------------- the cleanup task, step by step
\* _cleanup_loop suspends only in asyncio.sleep(60); both sweeps are
\* synchronous.  cleanup_task is "sleeping" while the timer runs, "ready"
\* when the timer has fired and the task waits for its turn, "exited" when
\* the coroutine has returned.  terminate's cancel() has been called exactly
\* when term is not "idle".

\* the 60 seconds are over: the task is scheduled to resume
CleanupWake ==
  /\ adapter = "http_adapter"
  /\ cleanup_task = "sleeping"
  /\ term = "idle"
  /\ cleanup_task' = "ready"
  /\ UNCHANGED <<coreVars, sessVars, termVars, streamVars, sinkVars, bufVars, admin, putVars, wsVars>>

\* a task that resumes whether or not it was cancelled
CleanupSweep_uncancelled ==
  /\ adapter = "http_adapter"
  /\ cleanup_task = "ready"
  /\ cleanup_expired_responses
  /\ IF sweep_raises THEN UNCHANGED <<sessions, close_calls>>
     ELSE cleanup_expired_sessions
  /\ cleanup_task' = "sleeping"
  /\ UNCHANGED <<now, ticks, nextReq, kind, pc, status, response, created_at, timeout,
                 result, sends, late, committed, total_requests_processed, total_errors>>
  /\ UNCHANGED <<conn, nextConn, last_active, message_count, termVars, streamVars,
                 sinkVars, bufVars, admin, putVars, wsVars>>

\* the task resumes from its sleep, not cancelled: both sweeps, then the
\* test of _running at the head of the loop
CleanupSweep ==
  /\ adapter = "http_adapter"
  /\ cleanup_task = "ready"
  /\ term = "idle"
  /\ cleanup_expired_responses
  /\ IF sweep_raises THEN UNCHANGED <<sessions, close_calls>>
     ELSE cleanup_expired_sessions
  /\ cleanup_task' = IF running THEN "sleeping" ELSE "exited"
  /\ UNCHANGED <<now, ticks, nextReq, kind, pc, status, response, created_at, timeout,
                 result, sends, late, committed, total_requests_processed, total_errors>>
  /\ UNCHANGED <<conn, nextConn, last_active, message_count, termVars, streamVars,
                 sinkVars, bufVars, admin, putVars, wsVars>>

\* the cancelled task resumes: CancelledError is raised at the sleep, the
\* except clause breaks out of the loop and the coroutine returns
CleanupCancelled ==
  /\ adapter = "http_adapter"
  /\ cleanup_task \in {"sleeping", "ready"}
  /\ term # "idle"
  /\ cleanup_task' = "exited"
  /\ UNCHANGED <<coreVars, sessVars, termVars, streamVars, sinkVars, bufVars, admin, putVars, wsVars>>

\* terminate's `await self._cleanup_task` returns once the task has ended
TerminateAwaitReturns ==
  /\ cleanup_task = "exited"
  /\ TerminateCloseSessions

\* A WebSocket client, the clock, the cleanup task step by step, shutdown.
NextShutdown ==
  \/ Tick(1)
  \/ \E c \in AdminConns : WebSocketConnect(c, "", "Bearer tok")
  \/ \E c \in AdminConns, e \in Reqs, tmo \in Timeouts : WebSocketMessage(c, e, "msg", tmo)
  \/ CleanupWake
  \/ CleanupSweep
  \/ CleanupCancelled
  \/ TerminateStart
  \/ TerminateAwaitReturns
  \/ TerminateFinish

\* the event loop runs a task that is ready, and the closes terminate gathers
\* return
SpecShutdown ==
  /\ InitSessions /\ [][NextShutdown]_vars
  /\ WF_vars(CleanupCancelled) /\ WF_vars(TerminateAwaitReturns) /\ WF_vars(TerminateFinish)

\* One streaming request with a clock that goes on and a server that keeps
\* running the generator while it is not closed.
SpecDeadline ==
  /\ InitStream /\ [][NextStream]_vars
  /\ WF_vars(Tick(1)) /\ WF_vars(GenLoopHead) /\ WF_vars(GenGet) /\ WF_vars(GenPollTimeout)

\* A WebSocket client that sends messages with any "timeout" field and may
\* leave, a consumer that never answers, a clock that goes on and a cleanup
\* task that keeps running.
NextReclaim ==
  \/ Tick(1)
  \/ WebSocketConnect(1, "", "Bearer tok")
  \/ WebSocketDisconnect(1)
  \/ \E e \in Reqs, tmo \in TimeoutInputs : WebSocketMessage(1, e, "msg", tmo)
  \/ CleanupWake
  \/ CleanupSweep

SpecReclaim ==
  /\ InitSessions /\ [][NextReclaim]_vars
  /\ WF_vars(Tick(1)) /\ WF_vars(CleanupWake) /\ WF_vars(CleanupSweep)

\* ------------------------------------------------- _safe_put against the clock
\* StreamHTTPMessageEvent._safe_put (httpmessageevent.py) on the queue of
\* capacity 100 that generate() makes: asyncio.wait_for(queue.put(item), 1.0).
\* A put on a queue with room does not suspend; on a full queue it waits
\* until a get makes room or the second runs out.
SAFE_PUT_TIMEOUT == 1
MaxSafePuts == QUEUE_MAXSIZE + 2

\* what a step of _safe_put or of the queue's reader leaves alone
PutFrame ==
  UNCHANGED <<coreVars, sessVars, termVars, sinkVars, bufVars, admin, cleanup_task,
              enqueued, frames, gen, stream_timeout, start_time, last_activity_time,
              poll_start, todo, end_tasks,
              gen_made, wsVars>>

\* the sink calls _safe_put with its next message item
SafePutCall ==
  /\ adapter = "http_adapter"
  /\ put_state = "idle"
  /\ chunks_made < MaxSafePuts
  /\ chunks_made' = chunks_made + 1
  /\ IF Len(queue) < QUEUE_MAXSIZE
       THEN /\ queue' = Append(queue, message_item(chunks_made + 1))
            /\ put_result' = "True"
            /\ UNCHANGED <<put_state, put_start>>
       ELSE /\ put_state' = "waiting"
            /\ put_start' = now
            /\ put_result' = "none"
            /\ UNCHANGED queue
  /\ PutFrame

\* a get has made room: the waiting put is made and _safe_put returns True
SafePutResume ==
  /\ put_state = "waiting"
  /\ Len(queue) < QUEUE_MAXSIZE
  /\ queue' = Append(queue, message_item(chunks_made))
  /\ put_state' = "idle"
  /\ put_result' = "True"
  /\ UNCHANGED <<put_start, chunks_made>>
  /\ PutFrame

\* a timeout that returns False after having enqueued the item
SafePutTimeout_enqueues ==
  /\ put_state = "waiting"
  /\ now - put_start >= SAFE_PUT_TIMEOUT
  /\ queue' = Append(queue, message_item(chunks_made))
  /\ put_state' = "idle"
  /\ put_result' = "False"
  /\ UNCHANGED <<put_start, chunks_made>>
  /\ PutFrame

\* the second is over: wait_for cancels the put and raises TimeoutError,
\* _safe_put logs and returns False
SafePutTimeout ==
  /\ put_state = "waiting"
  /\ now - put_start >= SAFE_PUT_TIMEOUT
  /\ put_state' = "idle"
  /\ put_result' = "False"
  /\ UNCHANGED <<queue, put_start, chunks_made>>
  /\ PutFrame

\* the reader of the queue takes its first item
QueueTake ==
  /\ adapter = "http_adapter"
  /\ queue # <<>>
  /\ queue' = Tail(queue)
  /\ UNCHANGED <<putVars, wsVars, chunks_made>>
  /\ PutFrame

NextSafePut ==
  \/ Tick(1)
  \/ SafePutCall
  \/ SafePutResume
  \/ SafePutTimeout
  \/ QueueTake

\* the clock goes on and the event loop runs the timer of wait_for
SpecSafePut ==
  /\ InitSink /\ [][NextSafePut]_vars
  /\ WF_vars(Tick(1)) /\ WF_vars(SafePutTimeout)

\* ------------------------------------------------ the handler's error path
\* _handle_http_message from its session_id step on (652-738) when the
\* "timeout" field is no number: the entry is registered, the event built
\* and committed, then asyncio.wait_for(future, timeout=timeout) raises
\* TypeError; the outer except Exception answers 500 and pops nothing
HttpMessageBadTimeout(e) ==
  /\ adapter = "http_adapter"
  /\ e = nextReq
  /\ kind' = [kind EXCEPT ![e] = "http"]
  /\ pending_responses' = pending_responses \cup {e}
  /\ created_at' = [created_at EXCEPT ![e] = now]
  /\ timeout' = [timeout EXCEPT ![e] = NotANumber]
  /\ future' = [future EXCEPT ![e] = "pending"]
  /\ committed' = committed \cup {e}
  /\ total_requests_processed' = total_requests_processed + 1
  /\ total_errors' = total_errors + 1
  /\ status' = [status EXCEPT ![e] = INTERNAL_ERROR]
  /\ pc' = [pc EXCEPT ![e] = "done"]
  /\ nextReq' = nextReq + 1
  /\ UNCHANGED <<now, ticks, response, result, invalid_state, sends, late>>
  /\ UNCHANGED <<sessVars, termVars, extVars, streamVars>>

\* Requests at the wait of _handle_http_message, whatever their "timeout"
\* field holds, with the consumer, the sweeper and the clock.
NextHandler ==
  \/ \E d \in {1, DEFAULT_TIMEOUT} : Tick(d)
  \/ \E e \in Reqs, tmo \in Timeouts : HttpMessageAccepted(e, tmo)
  \/ \E e \in Reqs : HttpMessageBadTimeout(e)
  \/ \E e \in Reqs : BufSendResponse(e)
  \/ \E e \in Reqs : WaitForTimeout(e)
  \/ \E e \in Reqs : HandlerTimeout(e)
  \/ \E e \in Reqs : HandlerResume(e)
  \/ CleanupLoop

SpecHandler == InitBuffer /\ [][NextHandler]_vars

\* HTTPSession.is_active at time `now`, as get_stats reports it
is_active(c) == now - last_active[c] < session_timeout

\* ------------------------------------------------ Platform.py: broadcasts
\* HttpPlatformAdapter keeps its WebSocket connections in the list
\* _ws_connections; send_ws_message and terminate walk that list with
\* `for ws in self._ws_connections` and await inside the loop, while each
\* connection's handler removes its own element when the connection ends.
PlatformFrame ==
  UNCHANGED <<coreVars, sessVars, termVars, streamVars, sinkVars, bufVars, admin,
              cleanup_task, putVars>>

\* list.remove(c)
list_remove(l, c) == SelectSeq(l, LAMBDA x : x # c)

\* where the list iterator, having handed out i elements, stops next: the
\* first position after i whose connection is not closed (the loop body
\* passes over a closed one without awaiting), 0 when the list is exhausted
next_at(l, st, i) ==
  LET later == {j \in (i + 1)..Len(l) : st[l[j]] = "open"}
  IN IF later = {} THEN 0 ELSE CHOOSE j \in later : \A k \in later : j <= k

\* the loop runs from iterator position i to its next await, or to its end
advance(i, st) ==
  LET j == next_at(ws_connections, st, i)
  IN IF j = 0
       THEN /\ ws_loop' = "over"
            /\ ws_awaiting' = 0
            /\ UNCHANGED <<ws_iter, ws_attempted>>
       ELSE /\ ws_iter' = j
            /\ ws_awaiting' = ws_connections[j]
            /\ ws_attempted' = ws_attempted \cup {ws_connections[j]}
            /\ UNCHANGED ws_loop

\* _handle_ws_connection up to its receive loop: the connection is appended
HandleWsConnection(c) ==
  /\ adapter = "http_platform"
  /\ ws_loop # "close" /\ term = "idle"
  /\ ws_state[c] = "fresh"
  /\ \A b \in Conns : b < c => ws_state[b] # "fresh"
  /\ ws_connections' = Append(ws_connections, c)
  /\ ws_state' = [ws_state EXCEPT ![c] = "open"]
  /\ UNCHANGED <<ws_loop, ws_iter, ws_awaiting, ws_attempted, ws_steady>>
  /\ PlatformFrame

\* the client of c closes: ws.closed, the receive loop ends and the finally
\* block removes c from the list
WsClientLeaves(c) ==
  /\ adapter = "http_platform"
  /\ ws_state[c] = "open"
  /\ ws_state' = [ws_state EXCEPT ![c] = "gone"]
  /\ ws_connections' = list_remove(ws_connections, c)
  /\ ws_steady' = ws_steady \ {c}
  /\ UNCHANGED <<ws_loop, ws_iter, ws_awaiting, ws_attempted>>
  /\ PlatformFrame

\* the handler of a connection that terminate closed leaves its receive
\* loop: the finally block removes c from the list
WsHandlerEnds(c) ==
  /\ adapter = "http_platform"
  /\ ws_state[c] = "closed"
  /\ ws_state' = [ws_state EXCEPT ![c] = "gone"]
  /\ ws_connections' = list_remove(ws_connections, c)
  /\ ws_steady' = ws_steady \ {c}
  /\ UNCHANGED <<ws_loop, ws_iter, ws_awaiting, ws_attempted>>
  /\ PlatformFrame

\* send_ws_message(message), called by HttpMessageEvent.send: up to its
\* first await
SendWsMessage ==
  /\ adapter = "http_platform"
  /\ ws_loop \in {"none", "over"} /\ term = "idle"
  /\ ws_steady' = {c \in Range(ws_connections) : ws_state[c] = "open"}
  /\ LET j == next_at(ws_connections, ws_state, 0)
     IN IF j = 0
          THEN /\ ws_loop' = "over"
               /\ ws_awaiting' = 0
               /\ ws_iter' = 0
               /\ ws_attempted' = {}
          ELSE /\ ws_loop' = "send"
               /\ ws_iter' = j
               /\ ws_awaiting' = ws_connections[j]
               /\ ws_attempted' = {ws_connections[j]}
  /\ UNCHANGED <<ws_connections, ws_state>>
  /\ PlatformFrame

\* await ws.send_json(message) returns, or raises and the except clause logs
\* it: the loop goes on
SendJsonReturns ==
  /\ ws_loop = "send"
  /\ ws_awaiting # 0
  /\ advance(ws_iter, ws_state)
  /\ UNCHANGED <<ws_connections, ws_state, ws_steady>>
  /\ PlatformFrame

\* terminate(), the servers stopped: its loop over the connections up to the
\* first await ws.close()
TerminateWs ==
  /\ adapter = "http_platform"
  /\ ws_loop \in {"none", "over"} /\ term = "idle"
  /\ term' = "done"
  /\ ws_steady' = {c \in Range(ws_connections) : ws_state[c] = "open"}
  /\ LET j == next_at(ws_connections, ws_state, 0)
     IN IF j = 0
          THEN /\ ws_loop' = "over"
               /\ ws_awaiting' = 0
               /\ ws_iter' = 0
               /\ ws_attempted' = {}
               /\ UNCHANGED ws_state
          ELSE /\ ws_loop' = "close"
               /\ ws_iter' = j
               /\ ws_awaiting' = ws_connections[j]
               /\ ws_attempted' = {ws_connections[j]}
               /\ ws_state' = [ws_state EXCEPT ![ws_connections[j]] = "closed"]
  /\ UNCHANGED <<ws_connections, coreVars, sessVars, adapter, running, closing,
                 streamVars, sinkVars, bufVars, admin, cleanup_task, putVars>>

\* await ws.close() returns: the loop goes on to the next connection that is
\* not closed and closes it
WsCloseReturns ==
  /\ ws_loop = "close"
  /\ ws_awaiting # 0
  /\ advance(ws_iter, ws_state)
  /\ ws_state' = IF ws_awaiting' # 0
                   THEN [ws_state EXCEPT ![ws_awaiting'] = "closed"]
                   ELSE ws_state
  /\ UNCHANGED <<ws_connections, ws_steady>>
  /\ PlatformFrame

InitPlatform == InitFields /\ NoStream /\ adapter = "http_platform"

\* Clients connecting to and leaving HttpPlatformAdapter while events
\* broadcast to them, then the adapter's shutdown.
NextPlatform ==
  \/ \E c \in Conns : HandleWsConnection(c)
  \/ \E c \in Conns : WsClientLeaves(c)
  \/ \E c \in Conns : WsHandlerEnds(c)
  \/ SendWsMessage
  \/ SendJsonReturns
  \/ TerminateWs
  \/ WsCloseReturns

SpecPlatform == InitPlatform /\ [][NextPlatform]_vars

\* --------------------------------------------------------------- properties

\* C1: at-most-once resolution.  Over any interleaving of sends, sweeps,
\* handler timeouts and terminate, no set_result / set_exception is ever made
\* on a future that is done, a future that has an outcome keeps it, and a
\* second send for an event id that reaches the table changes neither any
\* future nor the table.
C1_AtMostOnceResolution ==
  [][\A e \in Reqs :
       /\ e \notin invalid_state'
       /\ (future[e] \notin {"none", "pending"} =>
             future'[e] = future[e] /\ result'[e] = result[e])
       /\ (sends[e] >= 1 /\ sends'[e] > sends[e] =>
             /\ future' = future
             /\ result' = result
             /\ pending_responses' = pending_responses)]_vars

\* a second send was made for an id whose future holds the first send's value
C1_Witness == \E e \in Reqs : sends[e] >= 2 /\ future[e] = "result"

C3_EndToEndSuccess ==
  \A e \in Reqs :
    (kind[e] = "http" /\ pc[e] = "done") =>
      \/ status[e] = OK /\ sends[e] >= 1 /\ response[e] = result[e]
      \/ status[e] = TIMEOUT

\* C4: timeout then late delivery.  A POST /message request with valid
\* credentials and a non-empty message that has returned without any send
\* having been made for its id (no shutdown involved) returned 504, and its
\* entry is not in the table.
C4_TimeoutGives504 ==
  \A e \in Reqs :
    (kind[e] \in {"http", "simple"} /\ pc[e] = "done" /\ sends[e] = 0 /\ term = "idle") =>
      status[e] = TIMEOUT /\ e \notin pending_responses

\* C4, the part that holds: a handler whose wait ended with the timeout
\* returns 504 and leaves no entry for its id in the table, the entry stays
\* absent, and a send made for the id after the 504 changes neither the
\* table nor any future and does not raise.
C4_TimeoutThenLate ==
  [][\A e \in Reqs :
       /\ ((pc[e] = "cancelling" \/ (pc[e] = "waiting" /\ future[e] = "timeout_error"))
             /\ pc'[e] = "done" =>
             status'[e] = TIMEOUT)
       /\ (status'[e] = TIMEOUT => e \notin pending_responses')
       /\ (status[e] = TIMEOUT /\ sends'[e] > sends[e] =>
             /\ pending_responses' = pending_responses
             /\ future' = future
             /\ result' = result
             /\ invalid_state' = invalid_state)]_vars

\* a caller got 504 and a send for its id was made after the handler returned
C4_Witness == \E e \in Reqs : status[e] = TIMEOUT /\ e \in late /\ future[e] = "cancelled"

C6_ShutdownClosesSessions ==
  [][(term # "done" /\ term' = "done") =>
        /\ sessions' = <<>>
        /\ \A c \in Range(sessions) : close_calls'[c] >= 1]_vars

\* C7: capacity invariant.  The registry never holds more than max_sessions
\* sessions.
C7_CapacityInvariant == Len(sessions) <= max_sessions

\* C8: eviction victim.  A connection arriving at a registry that holds
\* max_sessions sessions (or more) removes exactly one session, the one with
\* the smallest last_active and the earliest-inserted of those, invokes its
\* close() once, and leaves every other session in place and untouched; when
\* the close returns the new session is appended and nothing else changes.
C8_EvictionVictim ==
  [][\A c \in Conns :
       /\ (conn[c] = "none" /\ conn'[c] # "none" /\ Len(sessions) >= max_sessions =>
             \E i \in 1..Len(sessions) :
               /\ \A j \in 1..Len(sessions) :
                    last_active[sessions[i]] <= last_active[sessions[j]]
               /\ \A j \in 1..(i - 1) :
                    last_active[sessions[j]] > last_active[sessions[i]]
               /\ sessions' = [k \in 1..(Len(sessions) - 1) |->
                                 IF k < i THEN sessions[k] ELSE sessions[k + 1]]
               /\ close_calls' = [close_calls EXCEPT ![sessions[i]] = @ + 1]
               /\ \A x \in Conns \ {c} :
                    last_active'[x] = last_active[x] /\ message_count'[x] = message_count[x])
       /\ (conn[c] = "evicting" /\ conn'[c] = "open" =>
             sessions' = Append(sessions, c) /\ close_calls' = close_calls)]_vars

\* the third connection evicted session 2, inserted after session 1 but
\* active less recently, and awaits its close
C8_Witness ==
  /\ conn[3] = "evicting"
  /\ conn[2] = "open"
  /\ sessions = <<1>>
  /\ close_calls[2] = 1
  /\ last_active[2] < last_active[1]

\* C9: streaming order preservation.  The frames generate() has emitted for
\* queue items are, in order, the first items the sink put on the queue, and
\* while the generator runs every item put is either emitted or still queued.
C9_StreamingOrder ==
  LET out == SelectSeq(frames, LAMBDA f : f.type \in {"stream", "error", "end"}
                                          /\ f # cancelled_frame) IN
  /\ Len(out) <= Len(enqueued)
  /\ \A i \in 1..Len(out) :
       out[i].type = enqueued[i].type /\ out[i].data = enqueued[i].data
  /\ (gen \in {"head", "polling"} => Len(out) + Len(queue) = Len(enqueued))

\* the sink put chunks 1, 2, 3 and end; the client got connected, 1, 2, 3, end
C9_Witness ==
  /\ gen = "done"
  /\ frames = <<connected_frame, stream_item(1), stream_item(2), stream_item(3), end_item>>

\* C10: end is terminal on the wire.  Once a frame of kind end has been
\* emitted no step adds a frame, whatever is put on the queue.
C10_EndIsTerminal ==
  [][(\E i \in 1..Len(frames) : frames[i].type = "end") => frames' = frames]_vars

\* the stream ended with an end frame while a chunk and a second end, put by
\* the sink, sit on the queue
C10_Witness ==
  /\ gen = "done"
  /\ frames[Len(frames)] = end_item
  /\ \E i \in 1..Len(queue) : queue[i].type = "stream"
  /\ \E i \in 1..Len(queue) : queue[i].type = "end"
  /\ \E i \in 1..Len(queue) : queue[i].type = "error"

\* C11: streaming finalize exactly once.  Over any sequence of send,
\* send_streaming, set_final_call and send_end_signal calls on one
\* StreamHTTPMessageEvent of httpmessageevent.py, the queue is given at most
\* one end item.
C11_FinalizeOnce ==
  Cardinality({i \in DOMAIN enqueued : enqueued[i].type = "end"}) <= 1

C14_BufferInArrivalOrder ==
  [][\A e \in Reqs :
       future[e] = "pending" /\ future'[e] = "result" => result'[e] = passed'[e]]_vars

C14_Witness ==
  \E e \in Reqs : /\ future[e] = "result"
                  /\ Len(resolved_with[e]) >= 2
                  /\ resolved_with[e] = passed[e]

\* C15: finalize without send.  send_response on a buffering sink whose entry
\* is in the table and pending, no unit having been passed to it, resolves
\* the future with the empty list and removes the entry.
C15_FinalizeWithoutSend ==
  [][\A e \in Reqs :
       (/\ BufSendResponse(e)
        /\ e \in pending_responses
        /\ future[e] = "pending"
        /\ passed[e] = <<>>)
       => /\ future'[e] = "result"
          /\ result'[e] = <<>>
          /\ e \notin pending_responses']_vars

C15_Witness ==
  \E e \in Reqs : /\ future[e] = "result"
                  /\ resolved_with[e] = <<>>
                  /\ passed[e] = <<>>
                  /\ sends[e] = 1
                  /\ e \notin pending_responses

\* C16: idempotent finalize.  A send_response made after an earlier
\* send_response of the same event leaves the table, every future and its
\* value as they are, and raises nothing.
C16_IdempotentFinalize ==
  [][\A e \in Reqs :
       BufSendResponse(e) /\ sends[e] >= 1
       => UNCHANGED <<pending_responses, future, result, invalid_state,
                      cached_response, resolved_with>>]_vars

C16_Witness ==
  \E e \in Reqs : /\ sends[e] = 2
                  /\ future[e] = "result"
                  /\ ~final_call[e]
                  /\ resolved_with[e] = passed[e]
                  /\ passed[e] # <<>>

\* C17: timeout sanitising.  The timeout kept for a registered entry, which
\* the wait and the sweeper compare ages with, is a positive number whatever
\* the caller put in the "timeout" field.
C17_TimeoutSanitised ==
  \A e \in Reqs : future[e] # "none" => timeout[e] # NotANumber /\ timeout[e] > 0

\* C18: authentication gate on submission.  With a token configured, a
\* request to POST /message, POST /message/stream, the SimpleHTTPAdapter's
\* send_message or the WebSocket endpoint whose Authorization header is not
\* "Bearer <token>" is refused (401; the WebSocket is closed) and adds no
\* correlation entry, no session and no committed event.
C18_AuthGate ==
  [][/\ \A e \in Reqs, hdr \in AuthHeaders, body \in Bodies, tmo \in TimeoutInputs :
          hdr # "Bearer " \o auth_token /\ HandleHttpMessage(e, hdr, body, tmo)
          => /\ status'[e] = UNAUTHORIZED
             /\ UNCHANGED <<pending_responses, committed, sessions>>
     /\ \A e \in Reqs, hdr \in AuthHeaders, body \in Bodies :
          /\ hdr # "Bearer " \o auth_token
          /\ HandleHttpStreamMessage(e, hdr, body) \/ HandleSimpleMessage(e, hdr, body)
          => /\ status'[e] = UNAUTHORIZED
             /\ UNCHANGED <<pending_responses, committed, sessions>>
     /\ \A c \in Conns, arg \in QueryTokens, hdr \in AuthHeaders :
          hdr # "Bearer " \o auth_token /\ WebSocketConnect(c, arg, hdr)
          => /\ conn'[c] = "refused"
             /\ UNCHANGED <<pending_responses, committed, sessions>>]_vars

\* C18, amended: the same, the WebSocket endpoint taking the token from the
\* token parameter of the URL or, that parameter being empty, from the
\* Authorization header with or without "Bearer " in front of it.
C18_AuthGateByToken ==
  [][/\ \A e \in Reqs, hdr \in AuthHeaders, body \in Bodies, tmo \in TimeoutInputs :
          hdr # "Bearer " \o auth_token /\ HandleHttpMessage(e, hdr, body, tmo)
          => /\ status'[e] = UNAUTHORIZED
             /\ UNCHANGED <<pending_responses, committed, sessions>>
     /\ \A e \in Reqs, hdr \in AuthHeaders, body \in Bodies :
          /\ hdr # "Bearer " \o auth_token
          /\ HandleHttpStreamMessage(e, hdr, body) \/ HandleSimpleMessage(e, hdr, body)
          => /\ status'[e] = UNAUTHORIZED
             /\ UNCHANGED <<pending_responses, committed, sessions>>
     /\ \A c \in Conns, arg \in QueryTokens, hdr \in AuthHeaders :
          /\ arg # auth_token
          /\ arg # "" \/ hdr \notin {auth_token, "Bearer " \o auth_token,
                                     "Bearer Bearer " \o auth_token}
          /\ WebSocketConnect(c, arg, hdr)
          => /\ conn'[c] = "refused"
             /\ UNCHANGED <<pending_responses, committed, sessions>>]_vars

C18_Witness ==
  /\ \E c \in Conns : conn[c] = "refused"
  /\ \E e \in Reqs : status[e] = UNAUTHORIZED /\ kind[e] = "stream"
  /\ pending_responses = {} /\ committed = {} /\ sessions = <<>>

\* C19: administrative endpoints are gated.  With a token configured, a
\* request to GET /health, GET /sessions, DELETE /sessions/{id} or GET /stats
\* whose Authorization header is not "Bearer <token>" is answered 401 with an
\* error body: no table length, session or counter is returned.
C19_AdminGated ==
  admin.endpoint # "none" /\ admin.hdr # "Bearer " \o auth_token
    => admin.status = UNAUTHORIZED /\ admin.body = "error"

\* C19 for the three handlers that call _check_auth: such a request is
\* answered 401 with an error body and changes neither table nor registry.
C19_CheckedEndpointsGated ==
  [][\A hdr \in AuthHeaders \ {"Bearer " \o auth_token}, c \in AdminConns :
       /\ admin'.hdr = hdr
       /\ HandleListSessions(hdr) \/ HandleDeleteSession(hdr, c) \/ HandleGetStats(hdr)
       => /\ admin'.status = UNAUTHORIZED /\ admin'.body = "error"
          /\ UNCHANGED <<coreVars, sessVars>>]_vars

C19_Witness ==
  /\ admin.endpoint = "delete" /\ admin.status = UNAUTHORIZED
  /\ sessions # <<>>
  /\ pending_responses # {}

\* C20: a missing message is a 400.  An authorised POST /message, and an
\* authorised POST /message/stream, whose JSON body is a non-empty object
\* without a (non-empty) message field is answered 400.
C20_MissingMessageIs400 ==
  [][\A e \in Reqs :
       /\ (\E tmo \in TimeoutInputs : HandleHttpMessage(e, "Bearer " \o auth_token, "nomsg", tmo))
          => status'[e] = BAD_REQUEST
       /\ HandleHttpStreamMessage(e, "Bearer " \o auth_token, "nomsg")
          => status'[e] = BAD_REQUEST]_vars

\* C20 for POST /message/stream alone
C20_StreamMissingMessageIs400 ==
  [][\A e \in Reqs :
       HandleHttpStreamMessage(e, "Bearer " \o auth_token, "nomsg")
       => status'[e] = BAD_REQUEST /\ UNCHANGED <<pending_responses, committed>>]_vars

C20_Witness ==
  \E e \in Reqs : kind[e] = "stream" /\ status[e] = BAD_REQUEST

\* C21: rejected input changes nothing.  An authorised POST /message, POST
\* /message/stream or SimpleHTTPAdapter request, or a WebSocket message, whose
\* message field is absent or empty leaves pending_responses as it is,
\* commits no event and leaves total_requests_processed as it is.
C21_RejectedInputChangesNothing ==
  [][\A e \in Reqs :
       (\/ \E tmo \in TimeoutInputs :
             HandleHttpMessage(e, "Bearer " \o auth_token, "nomsg", tmo)
        \/ HandleHttpStreamMessage(e, "Bearer " \o auth_token, "nomsg")
        \/ HandleSimpleMessage(e, "Bearer " \o auth_token, "nomsg")
        \/ \E c \in Conns, tmo \in TimeoutInputs : WebSocketMessage(c, e, "nomsg", tmo))
       => UNCHANGED <<pending_responses, committed, total_requests_processed>>]_vars

C21_Witness ==
  /\ \E e \in Reqs : kind[e] = "ws" /\ future[e] = "none"
  /\ \E e \in Reqs : kind[e] = "stream" /\ status[e] = BAD_REQUEST
  /\ \E c \in Conns : message_count[c] = 1

\* C22: correlation sweep.  A pass of _cleanup_expired_responses at time now
\* removes from the table exactly the entries with now - created_at >
\* timeout, fails with TimeoutError those of them that were unresolved, and
\* leaves every other entry in the table with its future as it was.
C22_ResponseSweep ==
  [][(CleanupLoop \/ HandleGetStats("Bearer " \o auth_token))
       => LET due == {e \in pending_responses :
                        timeout[e] # NotANumber /\ now - created_at[e] > timeout[e]}
          IN /\ pending_responses' = pending_responses \ due
             /\ \A e \in due :
                  future'[e] = IF future[e] = "pending" THEN "timeout_error" ELSE future[e]
             /\ \A e \in Reqs \ due : future'[e] = future[e]]_vars

\* C22 for a table whose stored timeouts are all numbers
C22_ResponseSweepOfNumbers ==
  [][(/\ CleanupLoop \/ HandleGetStats("Bearer " \o auth_token)
      /\ \A b \in pending_responses : timeout[b] # NotANumber)
       => LET due == {e \in pending_responses : now - created_at[e] > timeout[e]}
          IN /\ pending_responses' = pending_responses \ due
             /\ \A e \in due :
                  future'[e] = IF future[e] = "pending" THEN "timeout_error" ELSE future[e]
             /\ \A e \in Reqs \ due : future'[e] = future[e]]_vars

\* a sweep has failed one entry and removed it while a younger one stays
C22_Witness ==
  \E e, f \in Reqs :
    /\ future[e] = "timeout_error" /\ e \notin pending_responses
    /\ future[f] = "pending" /\ f \in pending_responses
    /\ timeout[f] # NotANumber

\* C23: session sweep.  A pass of _cleanup_expired_sessions at time now
\* removes from the registry exactly the sessions with now - last_active >
\* session_timeout and schedules one close for each of them; every other
\* session stays where it was in the registry, and no session's fields change.
C23_SessionSweep ==
  [][CleanupLoop
       => LET due == {c \in Range(sessions) : now - last_active[c] > session_timeout}
          IN /\ Range(sessions') = Range(sessions) \ due
             /\ sessions' = SelectSeq(sessions, LAMBDA c : c \notin due)
             /\ \A c \in Conns :
                  close_calls'[c] = close_calls[c] + (IF c \in due THEN 1 ELSE 0)
             /\ UNCHANGED <<last_active, message_count, conn>>]_vars

\* with no eviction and no shutdown, the sweep has closed the idle session 1
\* and kept the younger session 2
C23_Witness ==
  /\ nextConn = 3 /\ term = "idle"
  /\ conn[1] = "open" /\ close_calls[1] = 1
  /\ sessions = <<2>> /\ close_calls[2] = 0

\* C24: no activity after close.  Once close() has been called on a session
\* (eviction, idle sweep, administrator's delete), a message arriving on its
\* connection changes neither its last_active nor its message_count,
\* registers no correlation entry and commits no event; and a session's
\* last_active never decreases.
C24_NoActivityAfterClose ==
  [][\A c \in Conns :
       /\ last_active'[c] >= last_active[c]
       /\ close_calls[c] > 0
            => /\ last_active'[c] = last_active[c]
               /\ message_count'[c] = message_count[c]
               /\ \A e \in Reqs, body \in Bodies, tmo \in TimeoutInputs :
                    WebSocketMessage(c, e, body, tmo)
                      => UNCHANGED <<pending_responses, committed>>]_vars

\* C24, the part the session keeps: last_active never decreases, and a
\* message on a session that was closed commits no event.
C24_LastActiveNeverDecreases ==
  [][\A c \in Conns :
       /\ last_active'[c] >= last_active[c]
       /\ close_calls[c] > 0 => committed' = committed]_vars

\* a registered session has been active twice, the second time later
C24_Witness ==
  \E c \in Conns :
    /\ c \in Range(sessions) /\ close_calls[c] = 0
    /\ message_count[c] = 2 /\ last_active[c] = 2

C26_SweeperStops ==
  /\ [][CleanupSweep => term = "idle"]_vars
  /\ [][term # "idle" =>
          \A e \in Reqs : future'[e] = "timeout_error" => future[e] = "timeout_error"]_vars
  /\ [][term = "await_cleanup" /\ term' # "await_cleanup" => cleanup_task = "exited"]_vars
  /\ (term = "await_cleanup") ~> (cleanup_task = "exited")
  /\ (term = "await_cleanup") ~> (term \in {"gathering", "done"})

\* terminate found the task waiting to resume from its sleep, with an expired
\* entry in the table, and is past its wait
C26_Witness ==
  /\ term \in {"gathering", "done"} /\ cleanup_task = "exited"
  /\ \E e \in Reqs : future[e] = "cancelled_error" /\ now - created_at[e] > timeout[e]

\* C27: structured failures.  A POST /message handler that has ended has
\* returned a response: 200, or an error with status 400, 401, 500 or 504;
\* no exception has left it.
C27_StructuredFailures ==
  \A e \in Reqs :
    kind[e] \in {"http", "simple"} /\ pc[e] = "done"
      => status[e] \in {OK, BAD_REQUEST, UNAUTHORIZED, INTERNAL_ERROR, TIMEOUT}

\* C27 for the requests HTTPAdapter's handler ends in this source: each has
\* returned an error with status 400, 401, 500 or 504, shutdown or not.
C27_HttpStructuredFailures ==
  \A e \in Reqs :
    kind[e] = "http" /\ pc[e] = "done"
      => status[e] \in {BAD_REQUEST, UNAUTHORIZED, INTERNAL_ERROR, TIMEOUT}

\* a request to HTTPAdapter has failed and the adapter has been shut down
C27_Witness ==
  /\ term = "done"
  /\ \E e \in Reqs : kind[e] = "http" /\ pc[e] = "done" /\ status[e] = INTERNAL_ERROR

C30_EntryEventuallyReclaimed ==
  \A e \in Reqs :
    (e \in pending_responses
       /\ (timeout[e] = NotANumber \/ created_at[e] + timeout[e] < MaxTicks))
      ~> (e \notin pending_responses)

\* C30 as long as every stored timeout is a number: the entry is eventually
\* removed, or the table holds an entry whose timeout is no number.
C30_ReclaimedUnlessSweepRaises ==
  \A e \in Reqs :
    (e \in pending_responses /\ timeout[e] # NotANumber
       /\ created_at[e] + timeout[e] < MaxTicks)
      ~> (e \notin pending_responses
            \/ \E b \in pending_responses : timeout[b] = NotANumber)

\* the client has left, its entry was swept: removed and failed with
\* TimeoutError
C30_Witness ==
  /\ conn[1] = "gone"
  /\ \E e \in Reqs :
       /\ kind[e] = "ws" /\ future[e] = "timeout_error"
       /\ e \notin pending_responses /\ timeout[e] = 1

\* the end items the queue of the streaming sink has accepted
EndsEnqueued(q) == Cardinality({i \in DOMAIN q : q[i].type = "end"})

\* C31: send_streaming sends no end signal.  No step of a send_streaming
\* call on StreamHTTPMessageEvent (httpmessageevent.py) puts an end item on
\* the queue.
C31_SendStreamingPutsNoEnd ==
  [][(\/ \E n \in 0..MaxChain : StreamSendStreaming(n)
      \/ \E room \in BOOLEAN : StreamGenNext(room)
      \/ \E room \in BOOLEAN : StreamGenRaise(room)
      \/ \E room \in BOOLEAN : StreamGenDone(room))
       => EndsEnqueued(enqueued') = EndsEnqueued(enqueued)]_vars

\* C31, what the class keeps: an end item reaches the queue only at the
\* completion of send_streaming, in a send made with _finalcall set, or in
\* send_end_signal; the generator's chunks and its failure put none.
C31_EndOnlyFromFinalizers ==
  [][EndsEnqueued(enqueued') # EndsEnqueued(enqueued)
       => \/ \E room \in BOOLEAN : StreamGenDone(room)
          \/ finalcall /\ \E n \in 0..MaxChain : \E k \in 0..n, room \in BOOLEAN :
                            StreamSend(n, k, room)
          \/ \E room \in BOOLEAN : StreamSendEndSignal(room)
          \/ \E room \in BOOLEAN : StreamEndWaitOver(room)]_vars

\* a send_streaming call that was the only call made has put two chunks and
\* an end item
C31_Witness ==
  /\ streaming = "idle"
  /\ enqueued = <<message_item(1), message_item(2), end_signal_item>>
  /\ dropped = <<>>

\* C32: bounded enqueue with shedding.  A _safe_put that returns True has
\* appended its item at the tail of the queue; one that returns False has
\* waited its timeout and leaves the queue as it is; while it waits it puts
\* nothing on the queue; and a waiting _safe_put always returns.
C32_BoundedEnqueue ==
  /\ [][(put_state' = "idle" /\ (put_state = "waiting" \/ chunks_made' # chunks_made))
          => \/ /\ put_result' = "True"
                /\ queue' = Append(queue, message_item(chunks_made'))
             \/ /\ put_result' = "False"
                /\ queue' = queue
                /\ put_state = "waiting" /\ now - put_start >= SAFE_PUT_TIMEOUT]_vars
  /\ [][(put_state' = "waiting")
          => (queue' = queue \/ (queue # <<>> /\ queue' = Tail(queue)))]_vars
  /\ (put_state = "waiting" /\ put_start < MaxTicks) ~> (put_state = "idle")

\* a _safe_put on the full queue returned False and left the 100 items there
C32_Witness ==
  /\ put_state = "idle" /\ put_result = "False"
  /\ Len(queue) = QUEUE_MAXSIZE
  /\ chunks_made = QUEUE_MAXSIZE + 1
  /\ queue[QUEUE_MAXSIZE] = message_item(QUEUE_MAXSIZE)

\* ---------------------------------------------------------------------- C33
IsPrefix(a, b) == Len(a) <= Len(b) /\ a = SubSeq(b, 1, Len(a))

\* the chunks of the running (or last) send_streaming call that the queue took
gen_queued ==
  LET mine(it) == it \in Range(gen_made)
  IN SelectSeq(enqueued, mine)

\* C33: the message chunks that reach the queue from one send_streaming call
\* are a prefix, in order, of the chunks its generator produced; once a chunk
\* of the call was dropped no later chunk of that call is enqueued.
C33_SheddingKeepsPrefix ==
  /\ IsPrefix(gen_queued, gen_made)
  /\ \A i \in DOMAIN gen_made :
       gen_made[i] \in Range(dropped)
         => \A j \in DOMAIN gen_made : j > i => gen_made[j] \notin Range(enqueued)

\* the first chunk was dropped, the generator yielded a second one, and the
\* call went on to its end without enqueuing it
C33_Witness ==
  /\ Len(gen_made) = 2
  /\ gen_made[1] \in Range(dropped)
  /\ gen_made[2] \notin Range(enqueued) \cup Range(dropped)
  /\ gen_left = 0
  /\ streaming = "generating"

\* ---------------------------------------------------------------------- C34
\* C34: a send_streaming call on the sink of http_adapter.py puts exactly one
\* end item and puts it last, after the generator's chunks when the
\* generator completes and right after an error item when it raises; the
\* call makes its puts in that order, none skipped, until it returns.
C34_EndEvenOnError ==
  /\ [][\A n \in 0..MaxChain, raises \in BOOLEAN :
          SinkSendStreaming(n, raises)
            => LET last == Len(todo')
               IN /\ last = n + (IF raises THEN 2 ELSE 1)
                  /\ \A i \in 1..n : todo'[i] = stream_item(chunks_made + i)
                  /\ todo'[last].type = "end"
                  /\ EndsEnqueued(todo') = 1
                  /\ raises => todo'[last - 1].type = "error"
                  /\ ~raises => \A i \in 1..last : todo'[i].type # "error"]_vars
  /\ [][(todo # <<>>)
          => \/ todo' = todo
             \/ /\ todo' = Tail(todo)
                /\ enqueued' = Append(enqueued, Head(todo))]_vars

\* a call whose generator raised after one chunk has returned
C34_Witness ==
  /\ todo = <<>>
  /\ enqueued = <<stream_item(1), error_item, end_error_item>>

\* ---------------------------------------------------------------------- C35
\* C35: a consumer send on the event with id e touches only the entry
\* registered under e: for every other id the presence in pending_responses,
\* the future, its value and the handler's reply are unchanged, and a future
\* that the send resolves is the one of e and gets the value of that send.
C35_CrossRequestIsolation ==
  [][\A e \in Reqs, v \in Values :
       (\/ StandardSend(e, v)
        \/ SendResponse(e, v)
        \/ \E delivered \in BOOLEAN : WebSocketSend(e, v, delivered)
        \/ SimpleSend(e, v))
         => /\ \A o \in Reqs \ {e} :
                 /\ (o \in pending_responses') = (o \in pending_responses)
                 /\ future'[o] = future[o]
                 /\ result'[o] = result[o]
                 /\ response'[o] = response[o]
                 /\ status'[o] = status[o]
            /\ future'[e] # future[e] => future'[e] = "result" /\ result'[e] = v]_vars

\* two entries were pending together; the send on the first resolved it and
\* the second is still waiting
C35_Witness ==
  /\ 1 \notin pending_responses /\ future[1] = "result" /\ sends[1] > 0
  /\ 2 \in pending_responses /\ future[2] = "pending"

C37_NoFailedEntryLeftInTable ==
  \A e \in pending_responses : future[e] # "timeout_error"

\* ---------------------------------------------------------------------- C38
\* C38: the liveness report agrees with the sweeper.  Right after a session
\* sweep at time now, every session still in the registry has is_active true
\* at that same now.
C38_ReportAgreesWithSweep ==
  [][CleanupLoop => \A c \in Range(sessions') : is_active(c)]_vars

\* C38 off the boundary: a session the sweep keeps is reported active unless
\* it has been idle for exactly session_timeout, and a session reported
\* active is never removed by the sweep.
C38_AgreesOffTheBoundary ==
  [][CleanupLoop
       => /\ \A c \in Range(sessions') :
               is_active(c) \/ now - last_active[c] = session_timeout
          /\ \A c \in Range(sessions) : is_active(c) => c \in Range(sessions')]_vars

\* a sweep has removed one session and kept a younger one, which is active
C38_Witness ==
  \E c, d \in Conns :
    /\ c \in Range(sessions) /\ is_active(c)
    /\ d \notin Range(sessions) /\ close_calls[d] = 1 /\ conn[d] = "open"
    /\ now - last_active[d] > session_timeout
    /\ term = "idle"

\* ---------------------------------------------------------------------- C39
\* C39: a broadcast reaches every live connection.  When the loop of
\* send_ws_message, or the close loop of terminate, comes to its end, every
\* connection that was open and in the list from the loop's beginning to its
\* end has had its send (its close) attempted.
C39_BroadcastReachesEveryLive ==
  [][(ws_loop \in {"send", "close"} /\ ws_loop' = "over")
       => ws_steady' \subseteq ws_attempted']_vars

====
